---- MODULE Spec2Model ----
(***************************************************************************)
(* The three-agent answer pipeline of the workforce chat server:           *)
(*   planRequest -> retrieve*Evidence (through retrievalCache) ->          *)
(*   processGuichetQuery / processLegalQuery -> synthesizeResponses ->     *)
(*   buildCitations / detectConflicts -> ChatResponse,                     *)
(* and formatChatResponse of shared/response-format.ts.                    *)
(*                                                                         *)
(* Strings are sequences of atoms; an atom is a character or an            *)
(* indivisible piece of text.  String.includes is contiguous-subsequence   *)
(* search and toLowerCase maps atom by atom.                               *)
(*                                                                         *)
(* What JSON.parse returns is untyped, so every field read from it is a    *)
(* tagged JSON value [t, s, a, n]: t the JavaScript type, s the text of a  *)
(* string, a the elements of an array, n the value of a number (plan       *)
(* confidences are counted in tenths: 5 is 0.5) or boolean (0/1).          *)
(***************************************************************************)
EXTENDS Integers, Sequences, FiniteSets, TLC

\* ------------------------------------------------------------------ bounds
\* Clock advances per behaviour, and requests entered per behaviour.
MaxTicks == 2
MaxRequests == 2
\* Direct retrieval calls per behaviour.
MaxCalls == 3
\* Items in a list of legal evidence handed to the assembling steps.
MaxEvidence == 3

\* ----------------------------------------------------------------- strings
LowerAtom(c) ==
  CASE c = "Legal Advice" -> "legal advice"
    [] c = "LEGAL ADVICE" -> "legal advice"
    [] c = "Q" -> "q"
    [] c = "W" -> "w"
    [] c = "MUST" -> "must"
    [] c = "Mandatory" -> "mandatory"
    [] OTHER -> c

toLowerCase(s) == [i \in 1..Len(s) |-> LowerAtom(s[i])]

includes(s, needle) ==
  \E i \in 0..(Len(s) - Len(needle)) : SubSeq(s, i + 1, i + Len(needle)) = needle

IsWhitespace(c) == c \in {" ", "\t", "\n"}

\* As replaceWhitespaceRuns, for the pattern /\s/g: every whitespace character
\* becomes a "_" of its own.
replaceEachWhitespace(s) ==
  [i \in 1..Len(s) |-> IF IsWhitespace(s[i]) THEN "_" ELSE s[i]]

\* s.replace(/\s+/g, "_"): every maximal run of whitespace becomes one "_".
RECURSIVE replaceWhitespaceRuns(_)
replaceWhitespaceRuns(s) ==
  IF s = <<>> THEN <<>>
  ELSE IF IsWhitespace(Head(s))
       THEN IF Len(s) > 1 /\ IsWhitespace(s[2])
            THEN replaceWhitespaceRuns(Tail(s))
            ELSE <<"_">> \o replaceWhitespaceRuns(Tail(s))
       ELSE <<Head(s)>> \o replaceWhitespaceRuns(Tail(s))

\* ------------------------------------------------------------- JSON values
Undefined == [t |-> "undefined", s |-> <<>>, a |-> <<>>, n |-> 0]
JNull == [t |-> "null", s |-> <<>>, a |-> <<>>, n |-> 0]
JObject == [t |-> "object", s |-> <<>>, a |-> <<>>, n |-> 0]
JStr(s) == [t |-> "string", s |-> s, a |-> <<>>, n |-> 0]
JNum(n) == [t |-> "number", s |-> <<>>, a |-> <<>>, n |-> n]
JArr(a) == [t |-> "array", s |-> <<>>, a |-> a, n |-> 0]
\* An array of strings, from the strings.
StrArr(ss) == JArr([i \in 1..Len(ss) |-> JStr(ss[i])])

\* JavaScript truthiness: undefined, null, 0, "" and false are falsy; every
\* object and array, [] included, is truthy.
Truthy(v) ==
  CASE v.t = "undefined" -> FALSE
    [] v.t = "null" -> FALSE
    [] v.t = "number" -> v.n # 0
    [] v.t = "boolean" -> v.n # 0
    [] v.t = "string" -> v.s # <<>>
    [] OTHER -> TRUE

\* v || d
OrElse(v, d) == IF Truthy(v) THEN v ELSE d

\* What one call of the completion service gives its caller:
\*   kind "fail": callDeepSeek throws; kind "text": JSON.parse throws;
\*   kind "json": JSON.parse returns: top "object" with the fields f (a field
\*   the object omits is Undefined), top "null", or top "other" (a number, a
\*   string, an array: reading a field of it gives undefined).
CallFails(c) == c.kind = "fail"
ParseFails(c) == c.kind = "text"
\* parsed.<field> throws a TypeError when parsed is null.
FieldReadThrows(c) == c.kind = "json" /\ c.top = "null"

\* ----------------------------------------------------------------- planner
PlanFields == {"language", "intent", "confidence", "reasoning",
               "retrieval_queries", "agents_to_call"}
NoPlanFields == [x \in PlanFields |-> Undefined]

Parsed(c, none) == IF c.top = "object" THEN c.f ELSE none

BothAgents == StrArr(<< <<"guichet">>, <<"legal">> >>)

\* As FallbackPlan, routing to the guichet agent alone.
FallbackPlanGuichetOnly(question) ==
  [language |-> JStr(<<"en">>),
   intent |-> JStr(<<"mixed">>),
   confidence |-> JNum(5),
   reasoning |-> JStr(<<"Fallback plan due to processing error">>),
   retrieval_queries |-> StrArr(<<question>>),
   agents_to_call |-> StrArr(<< <<"guichet">> >>)]

FallbackPlan(question) ==
  [language |-> JStr(<<"en">>),
   intent |-> JStr(<<"mixed">>),
   confidence |-> JNum(5),
   reasoning |-> JStr(<<"Fallback plan due to processing error">>),
   retrieval_queries |-> StrArr(<<question>>),
   agents_to_call |-> BothAgents]

planRequest(question, c) ==
  IF CallFails(c) \/ ParseFails(c) \/ FieldReadThrows(c)
  THEN FallbackPlan(question)
  ELSE LET parsed == Parsed(c, NoPlanFields) IN
       [language |-> OrElse(parsed.language, JStr(<<"en">>)),
        intent |-> OrElse(parsed.intent, JStr(<<"mixed">>)),
        confidence |-> OrElse(parsed.confidence, JNum(5)),
        reasoning |-> OrElse(parsed.reasoning, JStr(<<>>)),
        retrieval_queries |-> OrElse(parsed.retrieval_queries, StrArr(<<question>>)),
        agents_to_call |-> OrElse(parsed.agents_to_call, BothAgents)]

\* --------------------------------------------------------------- retrieval
\* 24 * 60 * 60 * 1000
CACHE_TTL_MS == 86400000

\* new Date().toISOString().split("T")[0]: the day the instant t (ms) falls in.
DateOf(t) == t \div (24 * 60 * 60 * 1000)

DOMAIN_ALLOWLIST ==
  [guichet |-> { <<"guichet.public.lu">> },
   legal |-> { <<"legilux.public.lu">>, <<"mt.gouvernement.lu">> }]

getCacheKey(query, source) ==
  <<source, ":">> \o replaceWhitespaceRuns(toLowerCase(query))

\* retrievalCache is a Map: a set of entries, at most one per key.
Entry(cache, key) == CHOOSE e \in cache : e.key = key
HasEntry(cache, key) == \E e \in cache : e.key = key

\* As getCachedResults, with an entry still served at the age of the TTL.
getCachedResultsInclusive(cache, query, source, now) ==
  LET key == getCacheKey(query, source) IN
  IF HasEntry(cache, key) /\ now - Entry(cache, key).timestamp <= CACHE_TTL_MS
  THEN [hit |-> TRUE, results |-> Entry(cache, key).results, cache |-> cache]
  ELSE [hit |-> FALSE, results |-> <<>>,
        cache |-> {e \in cache : e.key # key}]

\* Returns the cached results (hit) or null (hit = FALSE), and the cache as the
\* call leaves it: an entry found expired is deleted.
getCachedResults(cache, query, source, now) ==
  LET key == getCacheKey(query, source) IN
  IF HasEntry(cache, key) /\ now - Entry(cache, key).timestamp < CACHE_TTL_MS
  THEN [hit |-> TRUE, results |-> Entry(cache, key).results, cache |-> cache]
  ELSE [hit |-> FALSE, results |-> <<>>,
        cache |-> {e \in cache : e.key # key}]

\* As cacheResults, with the timestamp 0 instead of the time of the write.
cacheResultsUnstamped(cache, query, source, results, now) ==
  LET key == getCacheKey(query, source) IN
  {e \in cache : e.key # key}
    \cup {[key |-> key, results |-> results, timestamp |-> 0]}

\* As cacheResults, without the write.
cacheResultsNotStored(cache, query, source, results, now) == cache

cacheResults(cache, query, source, results, now) ==
  LET key == getCacheKey(query, source) IN
  {e \in cache : e.key # key}
    \cup {[key |-> key, results |-> results, timestamp |-> now]}

getMockGuichetResults(query, language, now) ==
  << [url |-> <<"https://", "guichet.public.lu",
               "/en/citoyens/emploi-travail/contrat-travail">>,
      title |-> <<"Employment Contract">>,
      section |-> <<"Rights and Obligations">>,
      snippet |-> <<"An employment contract ", "must",
                   " be in writing and contain the essential terms">>,
      source |-> "guichet",
      retrieved_at |-> DateOf(now)] >>

getMockLegalResults(query, language, now) ==
  << [url |-> <<"https://", "legilux.public.lu",
               "/eli/etat/leg/loi/2018/05/08/a710">>,
      title |-> <<"Labour Code - Article 1">>,
      section |-> <<"General Provisions">>,
      snippet |-> <<"Every worker has the right to a written employment contract">>,
      source |-> "legal",
      retrieved_at |-> DateOf(now)] >>

MockResults(query, source, language, now) ==
  IF source = "guichet" THEN getMockGuichetResults(query, language, now)
  ELSE getMockLegalResults(query, language, now)

\* As EvidenceFromCached, with the title copied into the snippet.
EvidenceFromCachedTitleAsSnippet(results, source, now) ==
  [i \in 1..Len(results) |->
     [evidence_id |-> "ev_?",
      url |-> results[i].url, title |-> results[i].title,
      section |-> results[i].section, snippet |-> results[i].title,
      source |-> source, retrieved_at |-> DateOf(now)]]

\* As EvidenceFromCached, with the tag of the guichet function in both functions.
EvidenceFromCachedGuichetTag(results, source, now) ==
  [i \in 1..Len(results) |->
     [evidence_id |-> "ev_?",
      url |-> results[i].url, title |-> results[i].title,
      section |-> results[i].section, snippet |-> results[i].snippet,
      source |-> "guichet", retrieved_at |-> DateOf(now)]]

\* The Evidence objects pushed for one query's results r, on the cache-hit path
\* and on the fetch path.  evidence_id is Math.random(): the caller of the model
\* stamps it afterwards (StampIds).
EvidenceFromCached(results, source, now) ==
  [i \in 1..Len(results) |->
     [evidence_id |-> "ev_?",
      url |-> results[i].url, title |-> results[i].title,
      section |-> results[i].section, snippet |-> results[i].snippet,
      source |-> source, retrieved_at |-> DateOf(now)]]

EvidenceFromFetched(results, source, now) ==
  [i \in 1..Len(results) |->
     [evidence_id |-> "ev_?",
      url |-> results[i].url, title |-> results[i].title,
      section |-> results[i].section, snippet |-> results[i].snippet,
      source |-> source, retrieved_at |-> DateOf(now)]]

\* The for-loop of retrieveGuichetEvidence / retrieveLegalEvidence over the
\* queries left, from the evidence, cache and read log so far.  A query that is
\* not a string makes query.toLowerCase() throw inside getCacheKey: the loop
\* stops there with what it has already written to the cache.
\* log: per query read, the key, whether an entry existed, its timestamp, and
\* whether the cached results were used.
RECURSIVE retrieveLoop(_, _, _, _, _, _, _)
retrieveLoop(queries, source, language, now, cache, evidence, log) ==
  IF queries = <<>>
  THEN [threw |-> FALSE, evidence |-> evidence, cache |-> cache, log |-> log]
  ELSE LET query == Head(queries) IN
    IF query.t # "string"
    THEN [threw |-> TRUE, evidence |-> evidence, cache |-> cache, log |-> log]
    ELSE
      LET key == getCacheKey(query.s, source)
          had == HasEntry(cache, key)
          ts == IF had THEN Entry(cache, key).timestamp ELSE -1
          cached == getCachedResults(cache, query.s, source, now)
          rec == [key |-> key, had |-> had, ts |-> ts, hit |-> cached.hit, at |-> now]
          mockResults == MockResults(query.s, source, language, now)
      IN IF cached.hit
         THEN retrieveLoop(Tail(queries), source, language, now, cached.cache,
                           evidence \o EvidenceFromCached(cached.results, source, now),
                           Append(log, rec))
         ELSE retrieveLoop(Tail(queries), source, language, now,
                           cacheResults(cached.cache, query.s, source, mockResults, now),
                           evidence \o EvidenceFromFetched(mockResults, source, now),
                           Append(log, rec))

\* for (const query of queries): the elements of an array, the characters of a
\* string.
QueriesOf(rq) ==
  IF rq.t = "array" THEN rq.a
  ELSE [i \in 1..Len(rq.s) |-> JStr(<<rq.s[i]>>)]

retrieveGuichetEvidence(queries, language, now, cache) ==
  retrieveLoop(QueriesOf(queries), "guichet", language, now, cache, <<>>, <<>>)

retrieveLegalEvidence(queries, language, now, cache) ==
  retrieveLoop(QueriesOf(queries), "legal", language, now, cache, <<>>, <<>>)

\* evidence_id: `ev_${Math.random().toString(36).substr(2, 9)}`, a draw per
\* item; two draws may coincide.
StampIds(evidence, ids) ==
  [i \in 1..Len(evidence) |-> [evidence[i] EXCEPT !.evidence_id = ids[i]]]

validateEvidenceDomains(evidence) ==
  \A i \in 1..Len(evidence) :
    LET e == evidence[i]
        guichetOk == e.source = "guichet" /\
                     \E d \in DOMAIN_ALLOWLIST.guichet : includes(e.url, d)
        legalOk == e.source = "legal" /\
                   \E d \in DOMAIN_ALLOWLIST.legal : includes(e.url, d)
    IN guichetOk \/ legalOk

\* -------------------------------------------------------- specialist agents
AgentFields == {"answer", "steps", "confidence", "limitations", "suggested_searches"}
NoAgentFields == [x \in AgentFields |-> Undefined]

\* As GuichetFallback, dropping the evidence.
GuichetFallbackNoEvidence(evidence) ==
  [agent |-> "guichet",
   answer |-> JStr(<<"Unable to process", " your question with available procedural information.">>),
   steps |-> JArr(<<>>),
   evidence |-> <<>>,
   confidence |-> JStr(<<"low">>),
   limitations |-> StrArr(<< <<"Error processing Guichet sources.">> >>),
   suggested_searches |-> JArr(<<>>)]

GuichetFallback(evidence) ==
  [agent |-> "guichet",
   answer |-> JStr(<<"Unable to process", " your question with available procedural information.">>),
   steps |-> JArr(<<>>),
   evidence |-> evidence,
   confidence |-> JStr(<<"low">>),
   limitations |-> StrArr(<< <<"Error processing Guichet sources.">> >>),
   suggested_searches |-> JArr(<<>>)]

processGuichetQuery(question, language, evidence, c) ==
  IF CallFails(c) \/ ParseFails(c) \/ FieldReadThrows(c)
  THEN GuichetFallback(evidence)
  ELSE LET parsed == Parsed(c, NoAgentFields) IN
       [agent |-> "guichet",
        answer |-> OrElse(parsed.answer, JStr(<<>>)),
        steps |-> OrElse(parsed.steps, JArr(<<>>)),
        evidence |-> evidence,
        confidence |-> OrElse(parsed.confidence, JStr(<<"medium">>)),
        limitations |-> OrElse(parsed.limitations,
           StrArr(<< <<"This information is from guichet.public.lu and current as of retrieval date.">>,
                     <<"Individual circumstances may affect eligibility.">> >>)),
        suggested_searches |-> OrElse(parsed.suggested_searches, JArr(<<>>))]

LegalFallback(evidence) ==
  [agent |-> "legal",
   answer |-> JStr(<<"Unable to process", " your question with available legal information.">>),
   steps |-> JArr(<<>>),
   evidence |-> evidence,
   confidence |-> JStr(<<"low">>),
   limitations |-> StrArr(<< <<"This is not ", "legal advice", ". Consult a qualified lawyer.">>,
                             <<"Error processing legal sources.">> >>),
   suggested_searches |-> JArr(<<>>)]

LegalDisclaimer ==
  JStr(<<"This is not ", "legal advice",
         ". Consult a qualified lawyer for legal decisions.">>)

\* limitations.some((l) => l.toLowerCase().includes("legal advice")) over the
\* elements left: "true" at the first element that matches, "throw" at the
\* first element before it that is not a string, "false" at the end.
RECURSIVE someLegalAdvice(_)
someLegalAdvice(a) ==
  IF a = <<>> THEN "false"
  ELSE IF Head(a).t # "string" THEN "throw"
  ELSE IF includes(toLowerCase(Head(a).s), <<"legal advice">>) THEN "true"
  ELSE someLegalAdvice(Tail(a))

\* As EnsureDisclaimer, adding the disclaimer only to an empty list.
EnsureDisclaimerWhenEmpty(limitations, found) ==
  IF limitations.a # <<>> THEN limitations
  ELSE JArr(<<LegalDisclaimer>> \o limitations.a)

\* if (!limitations.some(...)) limitations.unshift(disclaimer)
EnsureDisclaimer(limitations, found) ==
  IF found = "true" THEN limitations
  ELSE JArr(<<LegalDisclaimer>> \o limitations.a)

processLegalQuery(question, language, evidence, c) ==
  IF CallFails(c) \/ ParseFails(c) \/ FieldReadThrows(c)
  THEN LegalFallback(evidence)
  ELSE LET parsed == Parsed(c, NoAgentFields)
           limitations == OrElse(parsed.limitations, JArr(<<>>))
           \* a value that is no array has no method some: TypeError
           found == IF limitations.t # "array" THEN "throw"
                    ELSE someLegalAdvice(limitations.a)
       IN IF found = "throw" THEN LegalFallback(evidence)
          ELSE
       [agent |-> "legal",
        answer |-> OrElse(parsed.answer, JStr(<<>>)),
        steps |-> OrElse(parsed.steps, JArr(<<>>)),
        evidence |-> evidence,
        confidence |-> OrElse(parsed.confidence, JStr(<<"medium">>)),
        limitations |-> EnsureDisclaimer(limitations, found),
        suggested_searches |-> OrElse(parsed.suggested_searches, JArr(<<>>))]

\* Potential conflict: sources mention both "${word1}" and "${word2}"
ConflictWarning(word1, word2) ==
  <<"Potential conflict: sources mention both \"">> \o word1
    \o <<"\" and \"">> \o word2 \o <<"\"">>

contradictions ==
  << << <<"must">>, <<"must", " not">> >>,
     << <<"required">>, <<"optional">> >>,
     << <<"mandatory">>, <<"voluntary">> >> >>

\* As detectConflicts, without the test for more than one item.
detectConflictsAnyLength(evidence) ==
  LET snippets == [i \in 1..Len(evidence) |-> toLowerCase(evidence[i].snippet)]
      has(w) == \E i \in 1..Len(snippets) : includes(snippets[i], w)
      hit(k) == has(contradictions[k][1]) /\ has(contradictions[k][2])
      RECURSIVE from(_)
      from(k) == IF k > Len(contradictions) THEN <<>>
                 ELSE (IF hit(k)
                       THEN <<ConflictWarning(contradictions[k][1], contradictions[k][2])>>
                       ELSE <<>>) \o from(k + 1)
  IN from(1)

detectConflicts(evidence) ==
  IF Len(evidence) > 1
  THEN LET snippets == [i \in 1..Len(evidence) |-> toLowerCase(evidence[i].snippet)]
           has(w) == \E i \in 1..Len(snippets) : includes(snippets[i], w)
           hit(k) == has(contradictions[k][1]) /\ has(contradictions[k][2])
           RECURSIVE from(_)
           from(k) == IF k > Len(contradictions) THEN <<>>
                      ELSE (IF hit(k)
                            THEN <<ConflictWarning(contradictions[k][1], contradictions[k][2])>>
                            ELSE <<>>) \o from(k + 1)
       IN from(1)
  ELSE <<>>

\* ------------------------------------------------------------- synthesizer
SynthFields == AgentFields
NoSynthFields == [x \in SynthFields |-> Undefined]

\* String(x) inside Array.join and template literals: the text of a string,
\* "" for null and undefined (join), one opaque atom for anything else.
TextOf(v) ==
  IF v.t = "string" THEN v.s
  ELSE IF v.t \in {"undefined", "null"} THEN <<>>
  ELSE <<"[non-string]">>

\* answers.map((r) => r.answer).join("\n\n")
RECURSIVE joinAnswers(_)
joinAnswers(rs) ==
  IF rs = <<>> THEN <<>>
  ELSE IF Len(rs) = 1 THEN TextOf(rs[1].answer)
  ELSE TextOf(rs[1].answer) \o <<"\n\n">> \o joinAnswers(Tail(rs))

\* As flatMap, with an element left out when it is already in the result.
RECURSIVE appendNew(_, _)
appendNew(seen, xs) ==
  IF xs = <<>> THEN seen
  ELSE IF \E i \in 1..Len(seen) : seen[i] = Head(xs)
       THEN appendNew(seen, Tail(xs))
       ELSE appendNew(Append(seen, Head(xs)), Tail(xs))
RECURSIVE flatMapUniqueFrom(_, _, _)
flatMapUniqueFrom(rs, field, seen) ==
  IF rs = <<>> THEN seen
  ELSE flatMapUniqueFrom(Tail(rs), field,
         appendNew(seen, IF Head(rs)[field].t = "array" THEN Head(rs)[field].a
                         ELSE <<Head(rs)[field]>>))
flatMapUnique(rs, field) == flatMapUniqueFrom(rs, field, <<>>)

\* rs.flatMap((r) => r[field]): an array is spliced in, any other value is
\* kept as one element.
RECURSIVE flatMap(_, _)
flatMap(rs, field) ==
  IF rs = <<>> THEN <<>>
  ELSE (IF Head(rs)[field].t = "array" THEN Head(rs)[field].a ELSE <<Head(rs)[field]>>)
       \o flatMap(Tail(rs), field)

SynthResult(val) == [threw |-> FALSE, val |-> val]
SynthThrows == [threw |-> TRUE, val |-> NoSynthFields]

\* As SynthCalls, with the completion service called for a single answer too.
SynthCallsForOne(agentResponses) == Len(agentResponses) >= 1

\* Whether the zero/one/many branch taken calls the completion service.
SynthCalls(agentResponses) == Len(agentResponses) >= 2

\* r.steps.join("; ") while building agentSummary, before the try block:
\* a value that is no array has no method join.
SummaryThrows(agentResponses) ==
  \E i \in 1..Len(agentResponses) : agentResponses[i].steps.t # "array"

synthesizeResponses(question, language, agentResponses, c) ==
  IF Len(agentResponses) = 0
  THEN SynthResult(
        [answer |-> JStr(<<"Unable to find relevant information", " to answer your question.">>),
         steps |-> JArr(<<>>),
         confidence |-> JStr(<<"low">>),
         limitations |-> StrArr(<< <<"No evidence found in available sources.">>,
                                   <<"Please rephrase your question or contact support.">> >>),
         suggested_searches |-> JArr(<<>>)])
  ELSE IF Len(agentResponses) = 1
  THEN SynthResult(
        [answer |-> agentResponses[1].answer,
         steps |-> agentResponses[1].steps,
         confidence |-> agentResponses[1].confidence,
         limitations |-> agentResponses[1].limitations,
         suggested_searches |-> agentResponses[1].suggested_searches])
  ELSE IF SummaryThrows(agentResponses) THEN SynthThrows
  ELSE IF CallFails(c) \/ ParseFails(c) \/ FieldReadThrows(c)
  THEN SynthResult(
        [answer |-> JStr(joinAnswers(agentResponses)),
         steps |-> JArr(flatMap(agentResponses, "steps")),
         confidence |-> JStr(<<"medium">>),
         limitations |-> JArr(flatMap(agentResponses, "limitations")),
         suggested_searches |-> JArr(flatMap(agentResponses, "suggested_searches"))])
  ELSE LET parsed == Parsed(c, NoSynthFields) IN
       SynthResult(
        [answer |-> OrElse(parsed.answer, agentResponses[1].answer),
         steps |-> OrElse(parsed.steps, JArr(flatMap(agentResponses, "steps"))),
         confidence |-> OrElse(parsed.confidence, JStr(<<"medium">>)),
         limitations |-> OrElse(parsed.limitations,
                                JArr(flatMap(agentResponses, "limitations"))),
         suggested_searches |-> OrElse(parsed.suggested_searches,
                                JArr(flatMap(agentResponses, "suggested_searches")))])

validateResponse(response) ==
  {"answer", "steps", "citations", "confidence", "limitations",
   "suggested_searches", "evidence"} \subseteq DOMAIN response

\* ------------------------------------------------------ response assembler
\* The Map key of buildCitations: `${ev.url}|${ev.section}`.
CitationKey(x) == x.url \o <<"|">> \o x.section

RECURSIVE buildCitationsFrom(_, _)
buildCitationsFrom(evidence, citations) ==
  IF evidence = <<>> THEN citations
  ELSE LET ev == Head(evidence)
           same == {i \in 1..Len(citations) : CitationKey(citations[i]) = CitationKey(ev)}
       IN IF same # {}
          THEN LET i == CHOOSE j \in same : TRUE IN
               buildCitationsFrom(Tail(evidence),
                 [citations EXCEPT ![i].evidence_ids = Append(@, ev.evidence_id)])
          ELSE buildCitationsFrom(Tail(evidence),
                 Append(citations,
                   [title |-> ev.title, url |-> ev.url, section |-> ev.section,
                    retrieved_at |-> ev.retrieved_at,
                    evidence_ids |-> <<ev.evidence_id>>]))

\* As buildCitations, with the ids numbered by position, as formatChatResponse
\* numbers them, instead of taken from the evidence.
buildCitationsRenumbered(evidence) ==
  buildCitationsFrom(StampIds(evidence, [i \in 1..Len(evidence) |-> <<"ev_", i>>]), <<>>)

buildCitations(evidence) == buildCitationsFrom(evidence, <<>>)

\* As buildErrorResponse, with the confidence of a normal answer.
buildErrorResponseMedium(question, language) ==
  [language |-> OrElse(language, JStr(<<"en">>)),
   answer |-> JStr(<<"I was unable to process your question. Please try rephrasing or contact support.">>),
   steps |-> JArr(<<>>),
   citations |-> <<>>,
   confidence |-> JStr(<<"medium">>),
   limitations |-> StrArr(<< <<"An error occurred while processing your question.">>,
                             <<"Please try again or contact support.">> >>),
   suggested_searches |-> JArr(<<>>),
   evidence |-> <<>>]

buildErrorResponse(question, language) ==
  [language |-> OrElse(language, JStr(<<"en">>)),
   answer |-> JStr(<<"I was unable to process your question. Please try rephrasing or contact support.">>),
   steps |-> JArr(<<>>),
   citations |-> <<>>,
   confidence |-> JStr(<<"low">>),
   limitations |-> StrArr(<< <<"An error occurred while processing your question.">>,
                             <<"Please try again or contact support.">> >>),
   suggested_searches |-> JArr(<<>>),
   evidence |-> <<>>]

\* As AgentListed, true of either name as soon as the plan lists any agent.
AgentListedAny(plan, name) == Len(plan.agents_to_call.a) > 0

\* plan.agents_to_call.includes(name), on an array: strict equality.
AgentListed(plan, name) ==
  \E i \in 1..Len(plan.agents_to_call.a) : plan.agents_to_call.a[i] = JStr(<<name>>)

\* plan.retrieval_queries.length > 0: an array and a string have a length; for
\* any other value length is undefined and the comparison is false.
HasQueries(plan) ==
  \/ plan.retrieval_queries.t = "array" /\ Len(plan.retrieval_queries.a) > 0
  \/ plan.retrieval_queries.t = "string" /\ Len(plan.retrieval_queries.s) > 0

\* As GuichetInvoked, without the test for evidence.
GuichetInvokedWithoutEvidence(plan, guichetEvidence) == AgentListed(plan, "guichet")

\* The conditions of step 3.
GuichetInvoked(plan, guichetEvidence) ==
  AgentListed(plan, "guichet") /\ Len(guichetEvidence) > 0
\* As LegalInvoked, without the test for evidence.
LegalInvokedWithoutEvidence(plan, legalEvidence) == AgentListed(plan, "legal")

LegalInvoked(plan, legalEvidence) ==
  AgentListed(plan, "legal") /\ Len(legalEvidence) > 0

\* Steps 5 to 7 of processQuestion.  synthesized.limitations.push(...conflicts)
\* throws when there are conflicts and limitations is no array.
AssembleThrows(synthesized, legalEvidence) ==
  detectConflicts(legalEvidence) # <<>> /\ synthesized.limitations.t # "array"

\* As AssembleResponse, with the conflicts looked for in all the evidence.
AssembleResponseAllEvidence(plan, synthesized, guichetEvidence, legalEvidence) ==
  LET allEvidence == guichetEvidence \o legalEvidence
      conflicts == detectConflicts(allEvidence)
  IN [language |-> plan.language,
      answer |-> synthesized.answer,
      steps |-> synthesized.steps,
      citations |-> buildCitations(allEvidence),
      confidence |-> synthesized.confidence,
      limitations |-> IF conflicts # <<>>
                      THEN JArr(synthesized.limitations.a
                                \o [i \in 1..Len(conflicts) |-> JStr(conflicts[i])])
                      ELSE synthesized.limitations,
      suggested_searches |-> synthesized.suggested_searches,
      evidence |-> allEvidence]

\* As AssembleResponse, with the evidence that fails the domain check left out.
AssembleResponseAllowedOnly(plan, synthesized, guichetEvidence, legalEvidence) ==
  LET allEvidence == guichetEvidence \o legalEvidence
      allowed == SelectSeq(allEvidence, LAMBDA e : validateEvidenceDomains(<<e>>))
      conflicts == detectConflicts(legalEvidence)
  IN [language |-> plan.language,
      answer |-> synthesized.answer,
      steps |-> synthesized.steps,
      citations |-> buildCitations(allowed),
      confidence |-> synthesized.confidence,
      limitations |-> IF conflicts # <<>>
                      THEN JArr(synthesized.limitations.a
                                \o [i \in 1..Len(conflicts) |-> JStr(conflicts[i])])
                      ELSE synthesized.limitations,
      suggested_searches |-> synthesized.suggested_searches,
      evidence |-> allowed]

\* As AssembleResponse, with the legal evidence in front of the guichet evidence.
AssembleResponseLegalFirst(plan, synthesized, guichetEvidence, legalEvidence) ==
  LET allEvidence == legalEvidence \o guichetEvidence
      conflicts == detectConflicts(legalEvidence)
  IN [language |-> plan.language,
      answer |-> synthesized.answer,
      steps |-> synthesized.steps,
      citations |-> buildCitations(allEvidence),
      confidence |-> synthesized.confidence,
      limitations |-> IF conflicts # <<>>
                      THEN JArr(synthesized.limitations.a
                                \o [i \in 1..Len(conflicts) |-> JStr(conflicts[i])])
                      ELSE synthesized.limitations,
      suggested_searches |-> synthesized.suggested_searches,
      evidence |-> allEvidence]

\* As AssembleResponse, with the default language of the error response.
AssembleResponseEnglish(plan, synthesized, guichetEvidence, legalEvidence) ==
  LET allEvidence == guichetEvidence \o legalEvidence
      conflicts == detectConflicts(legalEvidence)
  IN [language |-> JStr(<<"en">>),
      answer |-> synthesized.answer,
      steps |-> synthesized.steps,
      citations |-> buildCitations(allEvidence),
      confidence |-> synthesized.confidence,
      limitations |-> IF conflicts # <<>>
                      THEN JArr(synthesized.limitations.a
                                \o [i \in 1..Len(conflicts) |-> JStr(conflicts[i])])
                      ELSE synthesized.limitations,
      suggested_searches |-> synthesized.suggested_searches,
      evidence |-> allEvidence]

AssembleResponse(plan, synthesized, guichetEvidence, legalEvidence) ==
  LET allEvidence == guichetEvidence \o legalEvidence
      conflicts == detectConflicts(legalEvidence)
  IN [language |-> plan.language,
      answer |-> synthesized.answer,
      steps |-> synthesized.steps,
      citations |-> buildCitations(allEvidence),
      confidence |-> synthesized.confidence,
      limitations |-> IF conflicts # <<>>
                      THEN JArr(synthesized.limitations.a
                                \o [i \in 1..Len(conflicts) |-> JStr(conflicts[i])])
                      ELSE synthesized.limitations,
      suggested_searches |-> synthesized.suggested_searches,
      evidence |-> allEvidence]

\* ------------------------------------------------------ formatChatResponse
\* v ?? d
Nullish(v, d) == IF v.t \in {"undefined", "null"} THEN d ELSE v

\* `ev_${index + 1}` for the 0-based index of a source.
FormatEvidenceId(index) == <<"ev_", index + 1>>
FormatCitationEvidenceId(index) == <<"ev_", index + 1>>

createChatResponse(language, answer, options) ==
  [language |-> language,
   answer |-> answer,
   steps |-> Nullish(options.steps, JArr(<<>>)),
   citations |-> options.citations,
   confidence |-> Nullish(options.confidence, JStr(<<"medium">>)),
   limitations |-> Nullish(options.limitations, JArr(<<>>)),
   suggested_searches |-> Nullish(options.suggested_searches, JArr(<<>>)),
   evidence |-> options.evidence]

formatChatResponse(language, messageContent, sources, options, now) ==
  LET evidence ==
        [k \in 1..Len(sources) |->
           [evidence_id |-> FormatEvidenceId(k - 1),
            url |-> sources[k].url, title |-> sources[k].title,
            section |-> Nullish(sources[k].section, JStr(<<"General">>)).s,
            text |-> Nullish(sources[k].content, JStr(<<>>)).s,
            retrieved_at |-> now]]
      citations ==
        [k \in 1..Len(sources) |->
           [title |-> sources[k].title, url |-> sources[k].url,
            section |-> Nullish(sources[k].section, JStr(<<"General">>)).s,
            retrieved_at |-> DateOf(now),
            evidence_ids |-> << FormatCitationEvidenceId(k - 1) >>]]
  IN createChatResponse(language, messageContent,
       [steps |-> options.steps,
        citations |-> citations,
        confidence |-> Nullish(options.confidence, JStr(<<"medium">>)),
        limitations |-> options.limitations,
        suggested_searches |-> options.suggested_searches,
        evidence |-> evidence])

\* ------------------------------------------------- completion-service outputs
\* The outputs the completion service is let to give each caller: a failed
\* call, text that is no JSON, JSON that is null or no object, and objects
\* whose fields are present, omitted, empty or of the wrong type.
Fail(none) == [kind |-> "fail", top |-> "none", f |-> none]
Text(none) == [kind |-> "text", top |-> "none", f |-> none]
Json(top, f) == [kind |-> "json", top |-> top, f |-> f]

Q == <<"q">>
W == <<"w">>
Questions == {Q}
CallerLanguages == {Undefined, JStr(<<"de">>)}

AgentsChoices ==
  {Undefined, JArr(<<>>), StrArr(<< <<"guichet">> >>), StrArr(<< <<"legal">> >>),
   StrArr(<< <<"legal">>, <<"guichet">> >>), StrArr(<< <<"orchestrator">> >>),
   JStr(<<"guichet">>), JNum(5)}

QueriesChoices ==
  {Undefined, JArr(<<>>), StrArr(<<W, W>>),
   JArr(<<JStr(Q), JNum(5)>>), JNum(7)}

PlanObject(language, intent, confidence, queries, agents) ==
  Json("object",
       [language |-> language, intent |-> intent, confidence |-> confidence,
        reasoning |-> JStr(<<"because">>),
        retrieval_queries |-> queries, agents_to_call |-> agents])

PlannerOutputs ==
  {Fail(NoPlanFields), Text(NoPlanFields),
   Json("null", NoPlanFields), Json("other", NoPlanFields)}
  \cup {PlanObject(JStr(<<"fr">>), JStr(<<"legal">>), JNum(9), q, a) :
          q \in QueriesChoices, a \in AgentsChoices}
  \cup {PlanObject(l, i, c, StrArr(<<Q>>), BothAgents) :
          l \in {Undefined, JStr(<<"xx">>)},
          i \in {Undefined, JStr(<<"procedural">>)},
          c \in {JNum(0), JNum(15)}}

AgentObject(answer, steps, confidence, limitations, suggested) ==
  Json("object",
       [answer |-> answer, steps |-> steps, confidence |-> confidence,
        limitations |-> limitations, suggested_searches |-> suggested])

Answer == JStr(<<"Register at the agency.">>)
Steps == StrArr(<< <<"Step 1">> >>)
Suggested == StrArr(<< <<"Related question">> >>)

GuichetOutputs ==
  {Fail(NoAgentFields), Text(NoAgentFields),
   Json("null", NoAgentFields), Json("other", NoAgentFields),
   AgentObject(Answer, Steps, JStr(<<"high">>),
               StrArr(<< <<"Check eligibility.">> >>), Suggested),
   AgentObject(Undefined, Undefined, Undefined, Undefined, Undefined),
   AgentObject(Answer, JStr(<<"Step 1">>), JStr(<<"certain">>),
               JStr(<<"Check eligibility.">>), Suggested)}

LimitationsChoices ==
  {Undefined, JNull, JArr(<<>>),
   StrArr(<< <<"This is not ", "legal advice", ".">> >>),
   StrArr(<< <<"Individual cases vary.">>, <<"NOT ", "LEGAL ADVICE">> >>),
   StrArr(<< <<"Individual cases vary.">> >>),
   JStr(<<"not ", "legal advice">>), JNum(3),
   JArr(<<JNum(3)>>), JArr(<<JStr(<<"Legal Advice">>), JNum(3)>>),
   JArr(<<JStr(<<"Individual cases vary.">>), JNull>>)}

LegalOutputs ==
  {Fail(NoAgentFields), Text(NoAgentFields),
   Json("null", NoAgentFields), Json("other", NoAgentFields),
   AgentObject(Undefined, JNum(2), Undefined, Undefined, Undefined)}
  \cup {AgentObject(Answer, Steps, JStr(<<"low">>), l, Suggested) :
          l \in LimitationsChoices}

SynthOutputs ==
  {Fail(NoSynthFields), Text(NoSynthFields),
   Json("null", NoSynthFields), Json("other", NoSynthFields),
   AgentObject(JStr(<<"Merged answer.">>), Steps, JStr(<<"high">>),
               StrArr(<< <<"Merged limitation.">> >>), Suggested),
   AgentObject(Undefined, Undefined, Undefined, Undefined, Undefined),
   AgentObject(JStr(<<"Merged answer.">>), JArr(<<>>), JStr(<<"sure">>),
               JStr(<<"Merged limitation.">>), JArr(<<>>))}

\* evidence_id is `ev_${Math.random()...}`: a draw per item.  Draws are told
\* apart only by which of them coincide, so a draw is an id already drawn in
\* this request (one of 1..used) or the next one not yet drawn.
RECURSIVE IdDraws(_, _)
IdDraws(n, used) ==
  IF n = 0 THEN { <<>> }
  ELSE UNION { { <<k>> \o rest : rest \in IdDraws(n - 1, IF k > used THEN k ELSE used) } :
               k \in 1..(used + 1) }

MaxId(evidence) ==
  IF evidence = <<>> THEN 0
  ELSE CHOOSE m \in {evidence[i].evidence_id[2] : i \in 1..Len(evidence)} :
         \A i \in 1..Len(evidence) : evidence[i].evidence_id[2] <= m

Stamped(evidence, draws) ==
  StampIds(evidence, [i \in 1..Len(draws) |-> <<"ev_", draws[i]>>])

\* ------------------------------------------------------------------- state
VARIABLES
  pc,              \* where processQuestion stands: idle, plan, ..., done
  question,        \* its arguments
  language,
  planCompletion,  \* what the completion service gave planRequest
  plan,
  guichetEvidence,
  legalEvidence,
  agentResponses,
  calls,           \* per later stage, the kind of completion it got ("none": no call)
  synthesized,
  response,        \* the ChatResponse last returned
  returnedBy,      \* none, processQuestion or formatChatResponse
  thrown,          \* the function whose exception reached the catch of processQuestion
  retrievalCache,
  now,             \* Date.now()
  ticks,
  requests,
  history,         \* the direct retrieval calls made so far, oldest first
  clears,          \* how often clearCache() emptied a cache that held entries
  batch,           \* the invocations one processQuestions call started
  conversations,   \* the conversations table: its rows (id, userId) and its AUTO_INCREMENT
  conversationShares,  \* the rows of that table: conversationId and sharedWithUserId
  served           \* the last getConversation call and how it ended

requestVars == <<pc, question, language, planCompletion, plan, guichetEvidence,
                 legalEvidence, agentResponses, calls, synthesized, response,
                 returnedBy, thrown, requests>>
cacheVars == <<retrievalCache, now, ticks>>
probeVars == <<history, clears>>
chatVars == <<conversations, conversationShares, served>>
vars == <<requestVars, cacheVars, probeVars, batch, chatVars>>

NoCompletion == [kind |-> "none", top |-> "none", f |-> NoPlanFields]
NoPlan == NoPlanFields
NoCalls == [guichet |-> "none", legal |-> "none", synth |-> "none"]
NoConversations == [rows |-> {}, autoIncrement |-> 1]
NoCall == [router |-> "none", user |-> 0, conversationId |-> 0, outcome |-> "none"]
NoResponse ==
  [language |-> Undefined, answer |-> Undefined, steps |-> Undefined,
   citations |-> <<>>, confidence |-> Undefined, limitations |-> Undefined,
   suggested_searches |-> Undefined, evidence |-> <<>>]

Init ==
  /\ pc = "idle"
  /\ question = <<>>
  /\ language = Undefined
  /\ planCompletion = NoCompletion
  /\ plan = NoPlan
  /\ guichetEvidence = <<>>
  /\ legalEvidence = <<>>
  /\ agentResponses = <<>>
  /\ calls = NoCalls
  /\ synthesized = NoSynthFields
  /\ response = NoResponse
  /\ returnedBy = "none"
  /\ thrown = "none"
  /\ retrievalCache = {}
  /\ now = 0
  /\ ticks = 0
  /\ requests = 0
  /\ history = <<>>
  /\ clears = 0
  /\ batch = <<>>
  /\ conversations = NoConversations
  /\ conversationShares = {}
  /\ served = NoCall

\* ------------------------------------------------------- processQuestion
\* processQuestion(question, language) is entered; its locals are fresh.
Start ==
  /\ pc \in {"idle", "done"}
  /\ requests < MaxRequests
  /\ \E q \in Questions, l \in CallerLanguages :
       /\ question' = q
       /\ language' = l
  /\ pc' = "plan"
  /\ requests' = requests + 1
  /\ planCompletion' = NoCompletion
  /\ plan' = NoPlan
  /\ guichetEvidence' = <<>>
  /\ legalEvidence' = <<>>
  /\ agentResponses' = <<>>
  /\ calls' = NoCalls
  /\ synthesized' = NoSynthFields
  /\ response' = NoResponse
  /\ returnedBy' = "none"
  /\ thrown' = "none"
  /\ UNCHANGED <<cacheVars, probeVars, batch, chatVars>>

\* catch (error): return buildErrorResponse(question, language)
Caught(stage) ==
  /\ pc' = "done"
  /\ thrown' = stage
  /\ response' = buildErrorResponse(question, language)
  /\ returnedBy' = "processQuestion"

\* Step 1: planRequest, then the log line that joins plan.agents_to_call (a
\* value that is no array has no method join).
PlanStep ==
  /\ pc = "plan"
  /\ \E c \in PlannerOutputs :
       /\ planCompletion' = c
       /\ plan' = planRequest(question, c)
  /\ IF plan'.agents_to_call.t # "array"
     THEN Caught("processQuestion: plan.agents_to_call.join")
     ELSE /\ pc' = "retrieveGuichet"
          /\ UNCHANGED <<thrown, response, returnedBy>>
  /\ UNCHANGED <<question, language, guichetEvidence, legalEvidence, agentResponses,
                 calls, synthesized, requests, cacheVars, probeVars, batch, chatVars>>

\* Step 2, first half.
RetrieveGuichet ==
  /\ pc = "retrieveGuichet"
  /\ IF AgentListed(plan, "guichet") /\ HasQueries(plan)
     THEN LET r == retrieveGuichetEvidence(plan.retrieval_queries, plan.language,
                                           now, retrievalCache) IN
          /\ retrievalCache' = r.cache
          /\ IF r.threw
             THEN /\ Caught("retrieveGuichetEvidence")
                  /\ UNCHANGED guichetEvidence
             ELSE /\ \E d \in IdDraws(Len(r.evidence), 0) :
                       guichetEvidence' = Stamped(r.evidence, d)
                  /\ pc' = "retrieveLegal"
                  /\ UNCHANGED <<thrown, response, returnedBy>>
     ELSE /\ pc' = "retrieveLegal"
          /\ UNCHANGED <<guichetEvidence, retrievalCache, thrown, response, returnedBy>>
  /\ UNCHANGED <<question, language, planCompletion, plan, legalEvidence,
                 agentResponses, calls, synthesized, requests, now, ticks, probeVars, batch, chatVars>>

\* Step 2, second half, and the domain check, which only logs.
RetrieveLegal ==
  /\ pc = "retrieveLegal"
  /\ IF AgentListed(plan, "legal") /\ HasQueries(plan)
     THEN LET r == retrieveLegalEvidence(plan.retrieval_queries, plan.language,
                                         now, retrievalCache) IN
          /\ retrievalCache' = r.cache
          /\ IF r.threw
             THEN /\ Caught("retrieveLegalEvidence")
                  /\ UNCHANGED legalEvidence
             ELSE /\ \E d \in IdDraws(Len(r.evidence), MaxId(guichetEvidence)) :
                       legalEvidence' = Stamped(r.evidence, d)
                  /\ pc' = "callGuichet"
                  /\ UNCHANGED <<thrown, response, returnedBy>>
     ELSE /\ pc' = "callGuichet"
          /\ UNCHANGED <<legalEvidence, retrievalCache, thrown, response, returnedBy>>
  /\ UNCHANGED <<question, language, planCompletion, plan, guichetEvidence,
                 agentResponses, calls, synthesized, requests, now, ticks, probeVars, batch, chatVars>>

\* Step 3, the guichet agent.
CallGuichet ==
  /\ pc = "callGuichet"
  /\ IF GuichetInvoked(plan, guichetEvidence)
     THEN \E c \in GuichetOutputs :
            /\ agentResponses' = Append(agentResponses,
                 processGuichetQuery(question, plan.language, guichetEvidence, c))
            /\ calls' = [calls EXCEPT !.guichet = c.kind]
     ELSE UNCHANGED <<agentResponses, calls>>
  /\ pc' = "callLegal"
  /\ UNCHANGED <<question, language, planCompletion, plan, guichetEvidence, legalEvidence,
                 synthesized, response, returnedBy, thrown, requests, cacheVars, probeVars, batch, chatVars>>

\* Step 3, the legal agent.
CallLegal ==
  /\ pc = "callLegal"
  /\ IF LegalInvoked(plan, legalEvidence)
     THEN \E c \in LegalOutputs :
            /\ agentResponses' = Append(agentResponses,
                 processLegalQuery(question, plan.language, legalEvidence, c))
            /\ calls' = [calls EXCEPT !.legal = c.kind]
     ELSE UNCHANGED <<agentResponses, calls>>
  /\ pc' = "synthesize"
  /\ UNCHANGED <<question, language, planCompletion, plan, guichetEvidence, legalEvidence,
                 synthesized, response, returnedBy, thrown, requests, cacheVars, probeVars, batch, chatVars>>

\* Step 4.  With fewer than two answers, and when building the summary throws,
\* the completion service is not called.
Synthesize ==
  /\ pc = "synthesize"
  /\ IF SynthCalls(agentResponses) /\ ~SummaryThrows(agentResponses)
     THEN \E c \in SynthOutputs :
            /\ synthesized' = synthesizeResponses(question, plan.language, agentResponses, c).val
            /\ calls' = [calls EXCEPT !.synth = c.kind]
            /\ pc' = "assemble"
            /\ UNCHANGED <<thrown, response, returnedBy>>
     ELSE LET r == synthesizeResponses(question, plan.language, agentResponses, NoCompletion) IN
          /\ UNCHANGED calls
          /\ IF r.threw
             THEN /\ Caught("synthesizeResponses")
                  /\ UNCHANGED synthesized
             ELSE /\ synthesized' = r.val
                  /\ pc' = "assemble"
                  /\ UNCHANGED <<thrown, response, returnedBy>>
  /\ UNCHANGED <<question, language, planCompletion, plan, guichetEvidence, legalEvidence,
                 agentResponses, requests, cacheVars, probeVars, batch, chatVars>>

\* Steps 5 to 8: citations, conflicts, the response, the schema check (which
\* only logs), return.
Assemble ==
  /\ pc = "assemble"
  /\ IF AssembleThrows(synthesized, legalEvidence)
     THEN Caught("processQuestion: synthesized.limitations.push")
     ELSE /\ response' = AssembleResponse(plan, synthesized, guichetEvidence, legalEvidence)
          /\ returnedBy' = "processQuestion"
          /\ pc' = "done"
          /\ UNCHANGED thrown
  /\ UNCHANGED <<question, language, planCompletion, plan, guichetEvidence, legalEvidence,
                 agentResponses, calls, synthesized, requests, cacheVars, probeVars, batch, chatVars>>

\* ------------------------------------------------- the formatted chat router
Source1 ==
  [title |-> <<"Employment Contract">>,
   url |-> <<"https://", "guichet.public.lu", "/contrat-travail">>,
   section |-> JStr(<<"Rights and Obligations">>), content |-> JStr(<<"An employment contract...">>)]
Source2 ==
  [title |-> <<"Labour Code">>,
   url |-> <<"https://", "legilux.public.lu", "/a710">>,
   section |-> Undefined, content |-> Undefined]
FormatSources ==
  { <<>>, <<Source1>>, <<Source2>>, <<Source1, Source2>>, <<Source1, Source1>>,
    <<Source2, Source1, Source1>> }
FormatOptions ==
  { [steps |-> Undefined, confidence |-> Undefined, limitations |-> Undefined,
     suggested_searches |-> Undefined],
    [steps |-> Steps, confidence |-> JStr(<<"high">>),
     limitations |-> StrArr(<< <<"Check eligibility.">> >>),
     suggested_searches |-> Suggested] }

\* formatChatResponse(language, messageContent, sources, options) returns.
FormatChat ==
  /\ pc = "idle"
  /\ \E l \in {JStr(<<"en">>), JStr(<<"fr">>)}, src \in FormatSources, o \in FormatOptions :
       response' = formatChatResponse(l, Answer, src, o, now)
  /\ returnedBy' = "formatChatResponse"
  /\ pc' = "idle"
  /\ question' = <<>>
  /\ language' = Undefined
  /\ planCompletion' = NoCompletion
  /\ plan' = NoPlan
  /\ guichetEvidence' = <<>>
  /\ legalEvidence' = <<>>
  /\ agentResponses' = <<>>
  /\ calls' = NoCalls
  /\ synthesized' = NoSynthFields
  /\ thrown' = "none"
  /\ UNCHANGED <<requests, cacheVars, probeVars, batch, chatVars>>

\* ------------------------------------------------------------------- clock
TickSteps == {1, CACHE_TTL_MS - 1}

Tick ==
  /\ ticks < MaxTicks
  /\ \E d \in TickSteps : now' = now + d
  /\ ticks' = ticks + 1
  /\ UNCHANGED <<requestVars, retrievalCache, probeVars, batch, chatVars>>

\* The requests of one behaviour run at one instant of the clock: nothing in
\* processQuestion waits on it.
Next ==
  \/ Start
  \/ PlanStep
  \/ RetrieveGuichet
  \/ RetrieveLegal
  \/ CallGuichet
  \/ CallLegal
  \/ Synthesize
  \/ Assemble
  \/ FormatChat

Spec == Init /\ [][Next]_vars

\* ------------------------------------------------- the retrieval layer alone
\* retrieveGuichetEvidence / retrieveLegalEvidence called directly, the clock
\* and clearCache().
CacheQueryLists == {StrArr(<<Q>>), StrArr(<<W, W>>)}

RECURSIVE ItemsIn(_)
ItemsIn(h) == IF h = <<>> THEN 0 ELSE Len(Head(h).evidence) + ItemsIn(Tail(h))

\* One call.  Its ids are drawn distinct from every id of an earlier call.
CacheRetrieve ==
  /\ Len(history) < MaxCalls
  /\ \E source \in {"guichet", "legal"}, queries \in CacheQueryLists :
       LET r == IF source = "guichet"
                THEN retrieveGuichetEvidence(queries, JStr(<<"en">>), now, retrievalCache)
                ELSE retrieveLegalEvidence(queries, JStr(<<"en">>), now, retrievalCache)
           ids == [i \in 1..Len(r.evidence) |-> ItemsIn(history) + i]
       IN /\ retrievalCache' = r.cache
          /\ history' = Append(history,
               [source |-> source, queries |-> queries, at |-> now, clears |-> clears,
                threw |-> r.threw, evidence |-> Stamped(r.evidence, ids), log |-> r.log])
  /\ UNCHANGED <<requestVars, now, ticks, clears, batch, chatVars>>

\* clearCache()
ClearCache ==
  /\ retrievalCache # {}
  /\ retrievalCache' = {}
  /\ clears' = clears + 1
  /\ UNCHANGED <<requestVars, now, ticks, history, batch, chatVars>>

NextCache ==
  \/ CacheRetrieve
  \/ Tick
  \/ ClearCache

SpecCache == Init /\ [][NextCache]_vars

\* ------------------------------------------- the assembling steps alone
\* Steps 5 to 8 of processQuestion, entered with evidence that a retrieval
\* backend other than the stand-in may return: items that share a url and a
\* section, urls and sections that hold the separator "|", a url outside the
\* allowlist, and snippets that hold the keywords of detectConflicts.
EvidenceItem(source, url, section, snippet) ==
  [evidence_id |-> "ev_?", url |-> url, title |-> <<"Title">>, section |-> section,
   snippet |-> snippet, source |-> source, retrieved_at |-> 0]

LegalUrl == <<"https://", "legilux.public.lu", "/a">>

LegalPool ==
  { EvidenceItem("legal", LegalUrl, <<"Art. 1">>, <<"You ", "MUST", " register">>),
    EvidenceItem("legal", LegalUrl, <<"Art. 1">>, <<"You ", "must", " not", " work">>),
    EvidenceItem("legal", LegalUrl \o <<"|", "Art. 1">>, <<"Art. 2">>,
                 <<"required", " or ", "optional">>),
    EvidenceItem("legal", LegalUrl, <<"Art. 1", "|", "Art. 2">>, <<"Mandatory">>),
    EvidenceItem("legal", <<"https://", "example.org", "/b">>, <<"Art. 1">>,
                 <<"voluntary">>),
    EvidenceItem("legal", LegalUrl, <<"Art. 3">>, <<"nothing">>) }

LegalLists == UNION {[1..n -> LegalPool] : n \in 0..MaxEvidence}

GuichetItem1 ==
  EvidenceItem("guichet", LegalUrl, <<"Art. 1">>, <<"required", " and ", "optional">>)
GuichetItem2 ==
  EvidenceItem("guichet", <<"https://", "guichet.public.lu", "/c">>, <<"Steps">>,
               <<"must", " not">>)
GuichetLists == { <<>>, <<GuichetItem1>>, <<GuichetItem1, GuichetItem2>> }

SynthesizedChoices ==
  { [answer |-> Answer, steps |-> Steps, confidence |-> JStr(<<"high">>),
     limitations |-> StrArr(<< <<"Merged limitation.">> >>),
     suggested_searches |-> Suggested],
    [answer |-> Answer, steps |-> Steps, confidence |-> JStr(<<"high">>),
     limitations |-> JStr(<<"Merged limitation.">>),
     suggested_searches |-> Suggested] }

\* processQuestion stands before step 5; every item has an id of its own.
InitAssemble ==
  /\ pc = "assemble"
  /\ question = Q
  /\ language = Undefined
  /\ planCompletion = Fail(NoPlanFields)
  /\ plan = FallbackPlan(Q)
  /\ \E g \in GuichetLists, l \in LegalLists :
       /\ guichetEvidence = Stamped(g, [i \in 1..Len(g) |-> i])
       /\ legalEvidence = Stamped(l, [i \in 1..Len(l) |-> Len(g) + i])
  /\ agentResponses = <<>>
  /\ calls = NoCalls
  /\ synthesized \in SynthesizedChoices
  /\ response = NoResponse
  /\ returnedBy = "none"
  /\ thrown = "none"
  /\ retrievalCache = {}
  /\ now = 0
  /\ ticks = 0
  /\ requests = 1
  /\ history = <<>>
  /\ clears = 0
  /\ batch = <<>>
  /\ conversations = NoConversations
  /\ conversationShares = {}
  /\ served = NoCall

NextAssemble == Assemble

SpecAssemble == InitAssemble /\ [][NextAssemble]_vars

\* ------------------------------------------------- the cache key of a query
\* One query per call, written in several letter cases and with several
\* whitespace runs between its two words, and once with an underscore between
\* them.
KeyQueries ==
  { <<"Q", " ", "w">>, <<"q", "\t", "\n", "W">>, <<"q", "_", "w">> }

KeyRetrieve ==
  /\ Len(history) < MaxCalls
  /\ \E source \in {"guichet", "legal"}, query \in KeyQueries :
       LET queries == StrArr(<<query>>)
           r == IF source = "guichet"
                THEN retrieveGuichetEvidence(queries, JStr(<<"en">>), now, retrievalCache)
                ELSE retrieveLegalEvidence(queries, JStr(<<"en">>), now, retrievalCache)
           ids == [i \in 1..Len(r.evidence) |-> ItemsIn(history) + i]
       IN /\ retrievalCache' = r.cache
          /\ history' = Append(history,
               [source |-> source, queries |-> queries, at |-> now, clears |-> clears,
                threw |-> r.threw, evidence |-> Stamped(r.evidence, ids), log |-> r.log])
  /\ UNCHANGED <<requestVars, now, ticks, clears, batch, chatVars>>

NextKeys ==
  \/ KeyRetrieve
  \/ Tick

SpecKeys == Init /\ [][NextKeys]_vars

\* ---------------------------------------------------------- processQuestions
\* Promise.all(questions.map((q) => processQuestion(q, language))): every
\* invocation is started at once and waits for its planner; from then on the
\* invocations take turns, each running from one await to its next.  The
\* retrieval functions are async but await nothing: one call of either runs
\* its whole loop, cache reads and writes included, without another invocation
\* in between.  Steps 3 to 8 of an invocation touch nothing that is shared, so
\* they are taken as one step.
BatchQuestions == { <<Q, Q>>, <<Q, W>> }

BatchPlannerOutputs ==
  {Fail(NoPlanFields),
   PlanObject(JStr(<<"fr">>), JStr(<<"legal">>), JNum(9), StrArr(<<W, W>>),
              StrArr(<< <<"legal">> >>)),
   PlanObject(JStr(<<"fr">>), JStr(<<"mixed">>), JNum(9), JArr(<<JStr(Q), JNum(5)>>),
              BothAgents)}

BatchGuichetOutputs ==
  {AgentObject(Answer, Steps, JStr(<<"high">>),
               StrArr(<< <<"Check eligibility.">> >>), Suggested)}
BatchLegalOutputs ==
  {AgentObject(Answer, Steps, JStr(<<"low">>), JArr(<<>>), Suggested)}
BatchSynthOutputs ==
  {Fail(NoSynthFields),
   AgentObject(JStr(<<"Merged answer.">>), Steps, JStr(<<"high">>),
               StrArr(<< <<"Merged limitation.">> >>), Suggested)}

\* The locals of one invocation.
Member(q) ==
  [pc |-> "plan", question |-> q, plan |-> NoPlan, guichetEvidence |-> <<>>,
   legalEvidence |-> <<>>, response |-> NoResponse]

\* Steps 3 to 8 of the invocation m, for the completions its three calls get.
BatchRespond(m, callerLanguage, gc, lc, sc) ==
  LET guichet == IF GuichetInvoked(m.plan, m.guichetEvidence)
                 THEN <<processGuichetQuery(m.question, m.plan.language,
                                            m.guichetEvidence, gc)>>
                 ELSE <<>>
      legal == IF LegalInvoked(m.plan, m.legalEvidence)
               THEN <<processLegalQuery(m.question, m.plan.language,
                                        m.legalEvidence, lc)>>
               ELSE <<>>
      s == synthesizeResponses(m.question, m.plan.language, guichet \o legal, sc)
  IN IF s.threw \/ AssembleThrows(s.val, m.legalEvidence)
     THEN buildErrorResponse(m.question, callerLanguage)
     ELSE AssembleResponse(m.plan, s.val, m.guichetEvidence, m.legalEvidence)

\* processQuestions(questions, language) is called.
BatchStart ==
  /\ batch = <<>>
  /\ \E qs \in BatchQuestions, l \in CallerLanguages :
       /\ batch' = [i \in 1..Len(qs) |-> Member(qs[i])]
       /\ language' = l
  /\ UNCHANGED <<pc, question, planCompletion, plan, guichetEvidence, legalEvidence,
                 agentResponses, calls, synthesized, response, returnedBy, thrown,
                 requests, cacheVars, probeVars, chatVars>>

BatchFrame ==
  UNCHANGED <<requestVars, now, ticks, clears, chatVars>>

\* Step 1 of invocation i.
BatchPlan(i) ==
  /\ batch[i].pc = "plan"
  /\ \E c \in BatchPlannerOutputs :
       LET p == planRequest(batch[i].question, c) IN
       batch' = [batch EXCEPT
         ![i].plan = p,
         ![i].pc = IF p.agents_to_call.t # "array" THEN "done" ELSE "retrieveGuichet",
         ![i].response = IF p.agents_to_call.t # "array"
                         THEN buildErrorResponse(batch[i].question, language)
                         ELSE @]
  /\ UNCHANGED <<retrievalCache, history>>
  /\ BatchFrame

\* Step 2 of invocation i, for one of the two domains.
BatchRetrieve(i, source) ==
  LET m == batch[i]
      listed == AgentListed(m.plan, source) /\ HasQueries(m.plan)
      r == IF source = "guichet"
           THEN retrieveGuichetEvidence(m.plan.retrieval_queries, m.plan.language,
                                        now, retrievalCache)
           ELSE retrieveLegalEvidence(m.plan.retrieval_queries, m.plan.language,
                                      now, retrievalCache)
      ids == [k \in 1..Len(r.evidence) |-> ItemsIn(history) + k]
      evidence == Stamped(r.evidence, ids)
      next == IF source = "guichet" THEN "retrieveLegal" ELSE "answer"
  IN IF listed
     THEN /\ retrievalCache' = r.cache
          /\ history' = Append(history,
               [source |-> source, queries |-> m.plan.retrieval_queries, at |-> now,
                clears |-> clears, threw |-> r.threw, evidence |-> evidence,
                log |-> r.log, member |-> i])
          /\ batch' = IF r.threw
                      THEN [batch EXCEPT
                              ![i].pc = "done",
                              ![i].response = buildErrorResponse(m.question, language)]
                      ELSE IF source = "guichet"
                      THEN [batch EXCEPT ![i].pc = next, ![i].guichetEvidence = evidence]
                      ELSE [batch EXCEPT ![i].pc = next, ![i].legalEvidence = evidence]
     ELSE /\ batch' = [batch EXCEPT ![i].pc = next]
          /\ UNCHANGED <<retrievalCache, history>>

BatchRetrieveGuichet(i) ==
  /\ batch[i].pc = "retrieveGuichet"
  /\ BatchRetrieve(i, "guichet")
  /\ BatchFrame

BatchRetrieveLegal(i) ==
  /\ batch[i].pc = "retrieveLegal"
  /\ BatchRetrieve(i, "legal")
  /\ BatchFrame

\* Steps 3 to 8 of invocation i.
BatchAnswer(i) ==
  /\ batch[i].pc = "answer"
  /\ \E gc \in BatchGuichetOutputs, lc \in BatchLegalOutputs, sc \in BatchSynthOutputs :
       batch' = [batch EXCEPT
         ![i].pc = "done",
         ![i].response = BatchRespond(batch[i], language, gc, lc, sc)]
  /\ UNCHANGED <<retrievalCache, history>>
  /\ BatchFrame

\* Promise.all resolves once every invocation has returned its Response.
BatchReturn ==
  /\ batch # <<>>
  /\ \A i \in 1..Len(batch) : batch[i].pc = "done"
  /\ batch' = [i \in 1..Len(batch) |-> [batch[i] EXCEPT !.pc = "returned"]]
  /\ UNCHANGED <<retrievalCache, history>>
  /\ BatchFrame

\* The clock, while an invocation is still underway.
BatchTick ==
  /\ \E i \in 1..Len(batch) : batch[i].pc \notin {"done", "returned"}
  /\ Tick

NextBatch ==
  \/ BatchStart
  \/ \E i \in 1..Len(batch) : BatchPlan(i)
  \/ \E i \in 1..Len(batch) : BatchRetrieveGuichet(i)
  \/ \E i \in 1..Len(batch) : BatchRetrieveLegal(i)
  \/ \E i \in 1..Len(batch) : BatchAnswer(i)
  \/ BatchReturn
  \/ BatchTick

SpecBatch == Init /\ [][NextBatch]_vars

\* ------------------------------------------------- conversations and shares
\* The conversation procedures of the two chat routers, each called by an
\* authenticated user (protectedProcedure), over the tables conversations and
\* conversationShares.  appRouter mounts chatFormattedRouter as chat; chatRouter
\* is exported beside it and is the only router with the share procedures.
Users == {1, 2}
\* Conversations created per behaviour.
MaxConversations == 2
ConversationIds == 1..MaxConversations

\* The router mounted as appRouter.chat.
Mounted == "chatFormattedRouter"

\* getConversationWithMessages(conversationId) finds a row.
Found(conversationId) == \E c \in conversations.rows : c.id = conversationId
OwnerOf(conversationId) ==
  (CHOOSE c \in conversations.rows : c.id = conversationId).userId

hasConversationAccess(conversationId, userId) ==
  \/ \E c \in conversations.rows : c.id = conversationId /\ c.userId = userId
  \/ \E s \in conversationShares :
       s.conversationId = conversationId /\ s.sharedWithUserId = userId

Call(router, user, conversationId, outcome) ==
  [router |-> router, user |-> user, conversationId |-> conversationId,
   outcome |-> outcome]

ChatFrame ==
  UNCHANGED <<requestVars, cacheVars, probeVars, batch>>

\* createConversation of either router: a row with the caller as userId.
CreateConversation ==
  /\ conversations.autoIncrement <= MaxConversations
  /\ \E user \in Users :
       conversations' =
         [rows |-> conversations.rows
                     \cup {[id |-> conversations.autoIncrement, userId |-> user]},
          autoIncrement |-> conversations.autoIncrement + 1]
  /\ served' = NoCall
  /\ UNCHANGED conversationShares
  /\ ChatFrame

\* chatFormattedRouter.getConversation: the result whenever the row exists.
GetConversation ==
  /\ \E user \in Users, conversationId \in ConversationIds :
       served' = Call("chatFormattedRouter", user, conversationId,
                      IF ~Found(conversationId) THEN "NOT_FOUND" ELSE "result")
  /\ UNCHANGED <<conversations, conversationShares>>
  /\ ChatFrame

\* chatRouter.getConversation: the result for the owner and for a user the
\* conversation is shared with.
ChatGetConversation ==
  /\ \E user \in Users, conversationId \in ConversationIds :
       served' = Call("chatRouter", user, conversationId,
                      IF ~Found(conversationId) THEN "NOT_FOUND"
                      ELSE IF ~hasConversationAccess(conversationId, user)
                      THEN "FORBIDDEN"
                      ELSE "result")
  /\ UNCHANGED <<conversations, conversationShares>>
  /\ ChatFrame

\* chatFormattedRouter.deleteConversation: deletes for any caller; the shares
\* of the row go with it (ON DELETE cascade).
DeleteConversation ==
  /\ \E user \in Users, conversationId \in ConversationIds :
       /\ Found(conversationId)
       /\ conversations' =
            [conversations EXCEPT !.rows = {c \in @ : c.id # conversationId}]
       /\ conversationShares' =
            {s \in conversationShares : s.conversationId # conversationId}
  /\ served' = NoCall
  /\ ChatFrame

\* chatRouter.shareConversation, called by the owner (any other caller gets
\* FORBIDDEN and nothing changes).
ShareConversation ==
  /\ \E user \in Users, conversationId \in ConversationIds, sharedWithUserId \in Users :
       /\ Found(conversationId)
       /\ OwnerOf(conversationId) = user
       /\ [conversationId |-> conversationId, sharedWithUserId |-> sharedWithUserId]
            \notin conversationShares
       /\ conversationShares' = conversationShares \cup
            {[conversationId |-> conversationId, sharedWithUserId |-> sharedWithUserId]}
  /\ served' = NoCall
  /\ UNCHANGED conversations
  /\ ChatFrame

\* chatRouter.removeShare, called by the owner.
RemoveShare ==
  /\ \E user \in Users, conversationId \in ConversationIds, sharedWithUserId \in Users :
       /\ Found(conversationId)
       /\ OwnerOf(conversationId) = user
       /\ [conversationId |-> conversationId, sharedWithUserId |-> sharedWithUserId]
            \in conversationShares
       /\ conversationShares' = conversationShares \
            {[conversationId |-> conversationId, sharedWithUserId |-> sharedWithUserId]}
  /\ served' = NoCall
  /\ UNCHANGED conversations
  /\ ChatFrame

NextChat ==
  \/ CreateConversation
  \/ GetConversation
  \/ ChatGetConversation
  \/ DeleteConversation
  \/ ShareConversation
  \/ RemoveShare

SpecChat == Init /\ [][NextChat]_vars

\* ------------------------------------------------------------- properties
Low == JStr(<<"low">>)
EvidenceIds(r) == {r.evidence[i].evidence_id : i \in 1..Len(r.evidence)}
CitedIds(r) ==
  UNION {{r.citations[i].evidence_ids[j] : j \in 1..Len(r.citations[i].evidence_ids)} :
         i \in 1..Len(r.citations)}
ResponseFields == {"language", "answer", "steps", "citations", "confidence",
                   "limitations", "suggested_searches", "evidence"}
HasLegalAdvice(v) ==
  /\ v.t = "array"
  /\ \E i \in 1..Len(v.a) :
       v.a[i].t = "string" /\ includes(toLowerCase(v.a[i].s), <<"legal advice">>)
AnswersOf(agent) ==
  {i \in 1..Len(agentResponses) : agentResponses[i].agent = agent}

\* C1: in every ChatResponse returned by processQuestion (on its success and on
\* its error path) and by formatChatResponse, every evidence_id listed in a
\* citation is the evidence_id of an item of the response's evidence.
C1_CitedIdsAreEvidence ==
  returnedBy # "none" => CitedIds(response) \subseteq EvidenceIds(response)

\* processQuestion returned, on its success path, a citation that groups two
\* evidence items.
C1_Witness ==
  /\ returnedBy = "processQuestion"
  /\ thrown = "none"
  /\ \E i \in 1..Len(response.citations) : Len(response.citations[i].evidence_ids) = 2

\* C2: a Response of processQuestion with no evidence has confidence "low",
\* whatever the plan and the completion outputs were.
C2_NoEvidenceIsLow ==
  (returnedBy = "processQuestion" /\ response.evidence = <<>>)
    => response.confidence = Low

\* The success path returned without evidence, for a plan that lists the
\* guichet agent but no query.
C2_Witness ==
  /\ returnedBy = "processQuestion"
  /\ thrown = "none"
  /\ response.evidence = <<>>
  /\ AgentListed(plan, "guichet")
  /\ plan.retrieval_queries = JArr(<<>>)

\* C3: when an exception reaches the catch of processQuestion, it returns a
\* Response with all eight fields, confidence "low", empty steps, citations
\* and evidence, and a non-empty list of limitations; and processQuestion never
\* ends without having returned a Response.
C3_ErrorResponse ==
  /\ pc = "done" => returnedBy = "processQuestion"
  /\ thrown # "none" =>
       /\ pc = "done"
       /\ DOMAIN response = ResponseFields
       /\ response.confidence = Low
       /\ response.steps = JArr(<<>>)
       /\ response.citations = <<>>
       /\ response.evidence = <<>>
       /\ response.limitations.t = "array"
       /\ Len(response.limitations.a) > 0

\* The synthesizer threw after both agents had answered from evidence.
C3_Witness ==
  /\ thrown = "synthesizeResponses"
  /\ Len(agentResponses) = 2
  /\ guichetEvidence # <<>>

\* C4: every answer of processLegalQuery holds, among its limitations, a string
\* that contains "legal advice" in some letter case, whatever the completion
\* service returned.
C4_LegalDisclaimer ==
  \A i \in AnswersOf("legal") : HasLegalAdvice(agentResponses[i].limitations)

\* The completion gave JSON without such a limitation and the agent put the
\* disclaimer in front of the limitations it got.
C4_Witness ==
  \E i \in AnswersOf("legal") :
    /\ calls.legal = "json"
    /\ Len(agentResponses[i].limitations.a) = 2
    /\ agentResponses[i].limitations.a[1] = LegalDisclaimer

\* C5: when the planner's completion call fails or returns text that is no
\* JSON, the plan is the fallback plan (en, mixed, 0.5, [question], guichet and
\* legal), no exception is raised by planning, and processQuestion goes on to
\* retrieve for and call both agents.
C5_FallbackPlan ==
  planCompletion.kind \in {"fail", "text"} =>
    /\ plan.language = JStr(<<"en">>)
    /\ plan.intent = JStr(<<"mixed">>)
    /\ plan.confidence = JNum(5)
    /\ plan.retrieval_queries = JArr(<<JStr(question)>>)
    /\ plan.agents_to_call = JArr(<<JStr(<<"guichet">>), JStr(<<"legal">>)>>)
    /\ thrown \notin {"processQuestion: plan.agents_to_call.join",
                      "retrieveGuichetEvidence", "retrieveLegalEvidence"}
    /\ pc \in {"retrieveLegal", "callGuichet", "callLegal", "synthesize", "assemble", "done"}
         => Len(guichetEvidence) > 0
    /\ pc \in {"callGuichet", "callLegal", "synthesize", "assemble", "done"}
         => Len(legalEvidence) > 0
    /\ pc \in {"callLegal", "synthesize", "assemble", "done"}
         => AnswersOf("guichet") = {1}
    /\ pc \in {"synthesize", "assemble", "done"}
         => AnswersOf("legal") = {2}

\* The planner's call failed and the request ran to a normal response built
\* from both agents' answers.
C5_Witness ==
  /\ planCompletion.kind = "fail"
  /\ pc = "done"
  /\ thrown = "none"
  /\ Len(agentResponses) = 2

\* C6: when the planner's completion returns a JSON object, an omitted
\* retrieval_queries gives the plan [question], and an omitted or empty
\* agents_to_call gives the plan both agents.
C6_PlanDefaults ==
  (planCompletion.kind = "json" /\ planCompletion.top = "object") =>
    /\ planCompletion.f.retrieval_queries = Undefined
         => plan.retrieval_queries = JArr(<<JStr(question)>>)
    /\ planCompletion.f.agents_to_call \in {Undefined, JArr(<<>>)}
         => plan.agents_to_call = JArr(<<JStr(<<"guichet">>), JStr(<<"legal">>)>>)

\* C7: whatever the completion service gives, none of planRequest,
\* processGuichetQuery, processLegalQuery and synthesizeResponses throws: no
\* exception of theirs reaches the catch of processQuestion.
C7_ComponentsNeverThrow ==
  thrown \notin {"planRequest", "processGuichetQuery", "processLegalQuery",
                 "synthesizeResponses"}

\* C8: when its completion call fails or returns text that is no JSON, each
\* agent answers with confidence "low", an "Unable to process ..." text, no
\* steps, no suggested searches, its own non-empty limitations, and the
\* evidence it was given.
C8_AgentFallback ==
  /\ calls.guichet \in {"fail", "text"} =>
       \E i \in AnswersOf("guichet") :
         LET a == agentResponses[i] IN
         /\ a.confidence = Low
         /\ a.answer.t = "string" /\ Head(a.answer.s) = "Unable to process"
         /\ a.steps = JArr(<<>>)
         /\ a.suggested_searches = JArr(<<>>)
         /\ a.limitations = JArr(<<JStr(<<"Error processing Guichet sources.">>)>>)
         /\ a.evidence = guichetEvidence /\ guichetEvidence # <<>>
  /\ calls.legal \in {"fail", "text"} =>
       \E i \in AnswersOf("legal") :
         LET a == agentResponses[i] IN
         /\ a.confidence = Low
         /\ a.answer.t = "string" /\ Head(a.answer.s) = "Unable to process"
         /\ a.steps = JArr(<<>>)
         /\ a.suggested_searches = JArr(<<>>)
         /\ a.limitations.t = "array" /\ Len(a.limitations.a) = 2
         /\ a.limitations.a[2] = JStr(<<"Error processing legal sources.">>)
         /\ a.evidence = legalEvidence /\ legalEvidence # <<>>

\* The guichet agent got text that is no JSON, the legal agent a failed call.
C8_Witness ==
  /\ calls.guichet = "text"
  /\ calls.legal = "fail"
  /\ Len(agentResponses) = 2

\* What two Evidence items must agree on.
Content(e) == <<e.url, e.title, e.section, e.snippet>>
SameContent(a, b) ==
  /\ Len(a) = Len(b)
  /\ \A k \in 1..Len(a) : Content(a[k]) = Content(b[k])

\* Two calls of the same retrieval function with the same query list, the
\* second less than the TTL after the first, no clearCache() in between.
Repeated(i, j) ==
  /\ i < j
  /\ history[i].source = history[j].source
  /\ history[i].queries = history[j].queries
  /\ history[j].at - history[i].at < CACHE_TTL_MS
  /\ history[i].clears = history[j].clears

\* C9: two such calls return lists of the same length whose items agree, place
\* by place, on url, title, section and snippet.
C9_RepeatedRetrieval ==
  \A i, j \in 1..Len(history) :
    Repeated(i, j) => SameContent(history[i].evidence, history[j].evidence)

\* The first call fetched, the second was served from the cache on the next
\* day: the items differ in evidence_id and in retrieved_at.
C9_Witness ==
  \E i, j \in 1..Len(history) :
    /\ Repeated(i, j)
    /\ ~history[i].log[1].hit
    /\ history[j].log[1].hit
    /\ history[i].evidence[1].evidence_id # history[j].evidence[1].evidence_id
    /\ history[i].evidence[1].retrieved_at # history[j].evidence[1].retrieved_at

\* The reads of the calls made since clearCache() last emptied the cache.
LiveReads ==
  {<<i, k>> \in (1..Len(history)) \X (1..2) :
     k <= Len(history[i].log) /\ history[i].clears = clears}
\* Whether read <<i, k>> is the last read of its key.
LastRead(i, k) ==
  \A r \in LiveReads :
    history[r[1]].log[r[2]].key = history[i].log[k].key
      => (r[1] < i \/ (r[1] = i /\ r[2] <= k))

\* C10: a read is served from the cache exactly when the key has an entry whose
\* age is strictly less than the TTL; otherwise the results are fetched and
\* stored under the key with the time of the read.  An entry stays in the
\* cache, whatever its age, until its key is read again (or the cache is
\* cleared): it holds the timestamp the last read of its key left, and the
\* cache holds one entry per key.
C10_LazyExpiry ==
  /\ \A i \in 1..Len(history) : \A k \in 1..Len(history[i].log) :
       LET rec == history[i].log[k] IN
       rec.hit <=> (rec.had /\ rec.at - rec.ts < CACHE_TTL_MS)
  /\ \A r \in LiveReads :
       LET rec == history[r[1]].log[r[2]] IN
       LastRead(r[1], r[2]) =>
         \E e \in retrievalCache :
           /\ e.key = rec.key
           /\ e.timestamp = IF rec.hit THEN rec.ts ELSE rec.at
  /\ \A e1, e2 \in retrievalCache : e1.key = e2.key => e1 = e2

\* A key was read when its entry was exactly as old as the TTL: the results
\* were fetched again; and an entry older than the TTL is still in the cache.
C10_Witness ==
  /\ \E i \in 1..Len(history) : \E k \in 1..Len(history[i].log) :
       LET rec == history[i].log[k] IN
       rec.had /\ ~rec.hit /\ rec.at - rec.ts = CACHE_TTL_MS
  /\ \E e \in retrievalCache : now - e.timestamp >= CACHE_TTL_MS

\* The words of a string: its maximal runs of characters that are no whitespace.
RECURSIVE WordsFrom(_, _, _)
WordsFrom(s, word, words) ==
  IF s = <<>> THEN (IF word = <<>> THEN words ELSE Append(words, word))
  ELSE IF IsWhitespace(Head(s))
       THEN WordsFrom(Tail(s), <<>>, IF word = <<>> THEN words ELSE Append(words, word))
       ELSE WordsFrom(Tail(s), Append(word, Head(s)), words)
\* Two strings that differ at most in letter case and in the whitespace runs
\* between their words.
SameWords(q1, q2) ==
  WordsFrom(toLowerCase(q1), <<>>, <<>>) = WordsFrom(toLowerCase(q2), <<>>, <<>>)
\* The one query of a call, its one cache read, and the timestamp of the entry
\* the read left in the cache.
QueryOf(i) == history[i].queries.a[1].s
ReadOf(i) == history[i].log[1]
StampLeft(i) == IF ReadOf(i).hit THEN ReadOf(i).ts ELSE ReadOf(i).at

\* C11: for one domain tag, two queries that differ only in letter case or in
\* the kind and length of the whitespace runs between their words read the same
\* cache entry: the later retrieval, made while the entry the earlier one left
\* is younger than the TTL, is a cache hit.
C11_NormalizedKey ==
  \A i, j \in 1..Len(history) :
    (i < j /\ history[i].source = history[j].source /\ SameWords(QueryOf(i), QueryOf(j)))
      => /\ ReadOf(i).key = ReadOf(j).key
         /\ ReadOf(j).at - StampLeft(i) < CACHE_TTL_MS => ReadOf(j).hit

\* A query was served from the entry that a differently written query stored.
C11_Witness ==
  \E i, j \in 1..Len(history) :
    /\ i < j
    /\ history[i].source = history[j].source
    /\ QueryOf(i) = <<"Q", " ", "w">>
    /\ QueryOf(j) = <<"q", "\t", "\n", "W">>
    /\ ~ReadOf(i).hit
    /\ ReadOf(j).hit
    /\ ReadOf(j).ts = ReadOf(i).at

\* The queries of the plan that are strings: the ones the stand-in fetch can
\* answer, each with one result.
GoodQueries(p) ==
  {i \in 1..Len(p.retrieval_queries.a) : p.retrieval_queries.a[i].t = "string"}

UrlAllowed(e, tag) ==
  \/ tag = "guichet" /\ includes(e.url, <<"guichet.public.lu">>)
  \/ tag = "legal" /\ (includes(e.url, <<"legilux.public.lu">>)
                         \/ includes(e.url, <<"mt.gouvernement.lu">>))

\* C13: every Evidence of retrieveGuichetEvidence is tagged "guichet" and every
\* Evidence of retrieveLegalEvidence "legal", whether its results were fetched
\* or read from the cache, and each item's url contains a domain of the
\* allowlist of its tag: the combined evidence of a request passes
\* validateEvidenceDomains.
C13_EvidenceDomains ==
  /\ \A i \in 1..Len(guichetEvidence) :
       guichetEvidence[i].source = "guichet" /\ UrlAllowed(guichetEvidence[i], "guichet")
  /\ \A i \in 1..Len(legalEvidence) :
       legalEvidence[i].source = "legal" /\ UrlAllowed(legalEvidence[i], "legal")
  /\ validateEvidenceDomains(guichetEvidence \o legalEvidence)

\* Both functions returned two items for the queries [w, w]: the first item
\* fetched, the second read from the cache entry the first query stored.
C13_Witness ==
  /\ pc = "callGuichet"
  /\ plan.retrieval_queries = StrArr(<<W, W>>)
  /\ Len(guichetEvidence) = 2
  /\ Len(legalEvidence) = 2
  /\ Cardinality(retrievalCache) = 2

\* C14: when no evidence was retrieved, no agent is called, synthesizeResponses
\* gets zero answers and calls no completion, and processQuestion returns the
\* fixed "Unable to find relevant information ..." answer with confidence "low"
\* and empty steps, citations and evidence.
C14_NoEvidenceAnswer ==
  ( /\ pc \in {"synthesize", "assemble", "done"}
    /\ thrown = "none"
    /\ guichetEvidence = <<>>
    /\ legalEvidence = <<>> )
    => /\ agentResponses = <<>>
       /\ calls = NoCalls
       /\ pc = "done" =>
            /\ returnedBy = "processQuestion"
            /\ response.answer = JStr(<<"Unable to find relevant information",
                                        " to answer your question.">>)
            /\ response.confidence = Low
            /\ response.steps = JArr(<<>>)
            /\ response.citations = <<>>
            /\ response.evidence = <<>>

\* Both agents were listed with an empty list of queries, and the request ended
\* with the fixed answer.
C14_Witness ==
  /\ pc = "done"
  /\ thrown = "none"
  /\ AgentListed(plan, "guichet") /\ AgentListed(plan, "legal")
  /\ plan.retrieval_queries = JArr(<<>>)
  /\ Head(response.answer.s) = "Unable to find relevant information"

\* C15: with exactly one answer, synthesizeResponses calls no completion and
\* returns that answer's answer, steps, confidence, limitations and
\* suggested_searches unchanged; the Response of processQuestion has the
\* confidence of that one agent.
C15_SinglePassthrough ==
  ( /\ pc \in {"assemble", "done"}
    /\ Len(agentResponses) = 1
    /\ thrown = "none" )
    => /\ calls.synth = "none"
       /\ \A x \in {"answer", "steps", "confidence", "limitations", "suggested_searches"} :
            synthesized[x] = agentResponses[1][x]
       /\ pc = "done" =>
            /\ returnedBy = "processQuestion"
            /\ response.confidence = agentResponses[1].confidence

\* The guichet agent alone answered, with a confidence outside the three
\* levels and steps that are no list; the Response carries both unchanged.
C15_Witness ==
  /\ pc = "done"
  /\ thrown = "none"
  /\ Len(agentResponses) = 1
  /\ agentResponses[1].agent = "guichet"
  /\ response.confidence = JStr(<<"certain">>)
  /\ response.steps = JStr(<<"Step 1">>)

\* C16: when the merge call for two answers fails or returns text that is no
\* JSON, the result's answer is the two answers' texts joined by a blank line,
\* its steps, limitations and suggested_searches are the two answers' lists one
\* after the other, duplicates kept, and its confidence is "medium".
C16_MergeFallback ==
  (calls.synth \in {"fail", "text"} /\ pc \in {"assemble", "done"})
    => /\ Len(agentResponses) = 2
       /\ LET r1 == agentResponses[1]
              r2 == agentResponses[2]
          IN /\ synthesized.answer = JStr(r1.answer.s \o <<"\n\n">> \o r2.answer.s)
             /\ \A x \in {"steps", "limitations", "suggested_searches"} :
                  /\ r1[x].t = "array" /\ r2[x].t = "array"
                  /\ synthesized[x] = JArr(r1[x].a \o r2[x].a)
             /\ synthesized.confidence = JStr(<<"medium">>)

\* The merge call failed for two answers that hold the same step and the same
\* suggested search: both are there twice.
C16_Witness ==
  /\ calls.synth = "fail"
  /\ pc = "done"
  /\ synthesized.steps = StrArr(<< <<"Step 1">>, <<"Step 1">> >>)
  /\ synthesized.suggested_searches
       = StrArr(<< <<"Related question">>, <<"Related question">> >>)
  /\ Len(synthesized.limitations.a) = 3

\* The place in the evidence list of the item with the given id (ids differ
\* item by item here), and the citations that list the id.
PlaceOf(r, id) == CHOOSE i \in 1..Len(r.evidence) : r.evidence[i].evidence_id = id
CitationsOf(r, id) ==
  {c \in 1..Len(r.citations) :
     \E k \in 1..Len(r.citations[c].evidence_ids) : r.citations[c].evidence_ids[k] = id}
FirstPlace(r, c) == PlaceOf(r, r.citations[c].evidence_ids[1])

KeywordPairs ==
  << << <<"must">>, <<"must", " not">> >>,
     << <<"required">>, <<"optional">> >>,
     << <<"mandatory">>, <<"voluntary">> >> >>
Occurs(word, evidence) ==
  \E i \in 1..Len(evidence) : includes(toLowerCase(evidence[i].snippet), word)
PairsIn(evidence) ==
  {k \in 1..3 : Occurs(KeywordPairs[k][1], evidence) /\ Occurs(KeywordPairs[k][2], evidence)}
\* warnings holds one warning per pair of the set, in pair order, each naming
\* both keywords of its pair.
WarnsOf(warnings, pairs) ==
  /\ Len(warnings) = Cardinality(pairs)
  /\ \A k \in pairs :
       LET w == warnings[Cardinality({j \in pairs : j <= k})]
       IN includes(w, KeywordPairs[k][1]) /\ includes(w, KeywordPairs[k][2])

\* C18, as the specification states it: for a legal evidence list of any
\* length, detectConflicts gives a warning for a keyword pair exactly when both
\* keywords occur in the snippets of the list.
C18_ConflictsOfAnyLength ==
  WarnsOf(detectConflicts(legalEvidence), PairsIn(legalEvidence))

\* C18, as the code has it: for a legal evidence list of two or more items,
\* detectConflicts gives a warning naming both keywords of a pair exactly when
\* both keywords occur, in any letter case, in the snippets of the list; for a
\* list of fewer than two items it gives no warning.
C18_ConflictsOfSeveral ==
  IF Len(legalEvidence) >= 2
  THEN WarnsOf(detectConflicts(legalEvidence), PairsIn(legalEvidence))
  ELSE detectConflicts(legalEvidence) = <<>>

\* Three legal items held the first and the third pair between them, one
\* keyword written with a capital, and the two warnings are at the end of the
\* limitations returned.
C18_Witness ==
  /\ pc = "done"
  /\ thrown = "none"
  /\ Len(legalEvidence) = 3
  /\ PairsIn(legalEvidence) = {1, 3}
  /\ \E i \in 1..3 : legalEvidence[i].snippet = <<"Mandatory">>
  /\ Len(response.limitations.a) = Len(synthesized.limitations.a) + 2
  /\ includes(response.limitations.a[3].s, <<"voluntary">>)

\* C19: on the success path the limitations of the Response are the
\* synthesized limitations followed by the warnings detectConflicts gives for
\* the legal evidence, in pair order; what the guichet evidence holds adds no
\* warning.
C19_LimitationsWithConflicts ==
  (pc = "done" /\ thrown = "none") =>
    LET conflicts == detectConflicts(legalEvidence) IN
    /\ synthesized.limitations.t = "array" =>
         response.limitations =
           JArr(synthesized.limitations.a
                \o [i \in 1..Len(conflicts) |-> JStr(conflicts[i])])
    /\ PairsIn(legalEvidence) = {} => response.limitations = synthesized.limitations

\* The guichet evidence held two pairs and the legal evidence one: one
\* warning was added.
C19_Witness ==
  /\ pc = "done"
  /\ thrown = "none"
  /\ PairsIn(guichetEvidence) = {1, 2}
  /\ PairsIn(legalEvidence) = {1}
  /\ Len(legalEvidence) = 2
  /\ Len(response.limitations.a) = 2
  /\ includes(response.limitations.a[2].s, <<"must", " not">>)

\* C20: a domain check or schema check that fails changes nothing: the only
\* exception of the assembling steps is the one of limitations.push, and the
\* Response returned is the assembled one, with all the evidence, whether or
\* not the evidence passes validateEvidenceDomains; every Response returned
\* has the seven required fields.
C20_ChecksOnlyObserve ==
  /\ returnedBy = "processQuestion" =>
       {"answer", "steps", "citations", "confidence", "limitations",
        "suggested_searches", "evidence"} \subseteq DOMAIN response
  /\ (pc = "done" /\ thrown # "none") =>
       /\ synthesized.limitations.t # "array"
       /\ PairsIn(legalEvidence) # {}
  /\ (pc = "done" /\ thrown = "none") =>
       /\ returnedBy = "processQuestion"
       /\ response.language = plan.language
       /\ response.answer = synthesized.answer
       /\ response.steps = synthesized.steps
       /\ response.confidence = synthesized.confidence
       /\ response.suggested_searches = synthesized.suggested_searches
       /\ response.evidence = guichetEvidence \o legalEvidence
       /\ CitedIds(response) = EvidenceIds(response)

\* A Response was returned with evidence that fails the domain check: a legal
\* item from a url outside the allowlist.
C20_Witness ==
  /\ pc = "done"
  /\ thrown = "none"
  /\ returnedBy = "processQuestion"
  /\ ~validateEvidenceDomains(response.evidence)
  /\ \E i \in 1..Len(response.evidence) :
       includes(response.evidence[i].url, <<"example.org">>)

\* The url and section of each item of a list, and a list without the repeats
\* of an element that is already in it.
UrlSections(xs) == [i \in 1..Len(xs) |-> <<xs[i].url, xs[i].section>>]
RECURSIVE FirstOccurrences(_, _)
FirstOccurrences(xs, seen) ==
  IF xs = <<>> THEN seen
  ELSE IF \E i \in 1..Len(seen) : seen[i] = Head(xs)
       THEN FirstOccurrences(Tail(xs), seen)
       ELSE FirstOccurrences(Tail(xs), Append(seen, Head(xs)))
\* The source tags of the evidence of the response, in order.
SourcesOf(r) == [i \in 1..Len(r.evidence) |-> r.evidence[i].source]

\* C21: the order of the Response of processQuestion is fixed by the code and
\* not by the order of the names in agents_to_call: the guichet answer stands
\* before the legal answer in the input of the synthesizer, Response.evidence is
\* the guichet evidence followed by the legal evidence, and the citations stand
\* in the order in which their url and section first occur in that evidence.
C21_OrderIsFixed ==
  /\ \A i \in AnswersOf("guichet"), j \in AnswersOf("legal") : i < j
  /\ (pc = "done" /\ thrown = "none" /\ returnedBy = "processQuestion") =>
       /\ response.evidence = guichetEvidence \o legalEvidence
       /\ \A i, j \in 1..Len(response.evidence) :
            (SourcesOf(response)[i] = "guichet" /\ SourcesOf(response)[j] = "legal")
              => i < j
       /\ UrlSections(response.citations)
            = FirstOccurrences(UrlSections(response.evidence), <<>>)

\* The plan named the legal agent before the guichet agent; both retrieved
\* and answered, and the Response has the guichet item and citation first.
C21_Witness ==
  /\ pc = "done"
  /\ thrown = "none"
  /\ plan.agents_to_call = StrArr(<< <<"legal">>, <<"guichet">> >>)
  /\ Len(agentResponses) = 2
  /\ agentResponses[1].agent = "guichet"
  /\ SourcesOf(response) = <<"guichet", "guichet", "legal", "legal">>
  /\ Len(response.citations) = 2
  /\ includes(response.citations[1].url, <<"guichet.public.lu">>)

\* The cache reads of all retrieval calls, in the order they were made: read
\* <<i, k>> is the k-th read of the i-th call.
Reads ==
  {r \in (1..Len(history)) \X (1..2) : r[2] <= Len(history[r[1]].log)}
ReadAt(r) == history[r[1]].log[r[2]]
Before(r1, r2) == r1[1] < r2[1] \/ (r1[1] = r2[1] /\ r1[2] < r2[2])
\* The reads of a key that found nothing to serve and fetched.
Fetches(key) == {r \in Reads : ReadAt(r).key = key /\ ~ReadAt(r).hit}
\* What the fetch of read r returned.
Fetched(r) ==
  LET call == history[r[1]] IN
  MockResults(call.queries.a[r[2]].s, call.source,
              batch[call.member].plan.language, ReadAt(r).at)

\* C22: however the invocations of one processQuestions call take turns, every
\* entry of the cache holds the whole result list of one fetch of its key
\* together with the time of that fetch, the fetch is the last one made for the
\* key, and no key has two entries.
C22_EntriesAreWhole ==
  /\ \A e \in retrievalCache :
       \E r \in Fetches(e.key) :
         /\ e.timestamp = ReadAt(r).at
         /\ e.results = Fetched(r)
         /\ \A r2 \in Fetches(e.key) : ~Before(r, r2)
  /\ \A e1, e2 \in retrievalCache : e1.key = e2.key => e1 = e2

\* Two invocations took turns (one retrieved between two retrievals of the
\* other) and both fetched the same key, the second after the entry of the
\* first had expired; the entry is the second one's.
C22_Witness ==
  \E i, j, k \in 1..Len(history) :
    /\ i < j /\ j < k
    /\ history[i].member = history[k].member
    /\ history[i].member # history[j].member
    /\ history[i].log[1].key = history[j].log[1].key
    /\ ~history[i].log[1].hit
    /\ ~history[j].log[1].hit
    /\ \E e \in retrievalCache :
         /\ e.key = history[j].log[1].key
         /\ e.timestamp = history[j].at
         /\ e.timestamp > history[i].at

\* C28: after a fetch for a key, every later read of that key made less than
\* the TTL after it is served from the cache, whichever invocation makes it and
\* also when it is a repeat in the same list of queries: no key is fetched
\* twice within a time shorter than the TTL.
C28_OneFetchPerWindow ==
  \A r1, r2 \in Reads :
    ( /\ Before(r1, r2)
      /\ ReadAt(r1).key = ReadAt(r2).key
      /\ ~ReadAt(r1).hit
      /\ ReadAt(r2).at - ReadAt(r1).at < CACHE_TTL_MS )
      => ReadAt(r2).hit

\* One invocation was served, some time later, what the other had fetched, and
\* a repeated query of one list was served what the first had fetched.
C28_Witness ==
  /\ \E i, j \in 1..Len(history) :
       /\ i < j
       /\ history[i].member # history[j].member
       /\ history[i].log[1].key = history[j].log[1].key
       /\ ~history[i].log[1].hit
       /\ history[j].log[1].hit
       /\ history[j].at > history[i].at
  /\ \E i \in 1..Len(history) :
       /\ Len(history[i].log) = 2
       /\ ~history[i].log[1].hit
       /\ history[i].log[2].hit

Languages == {JStr(<<"en">>), JStr(<<"fr">>), JStr(<<"de">>)}
Levels == {JStr(<<"high">>), JStr(<<"medium">>), JStr(<<"low">>)}
\* planRequest has returned the plan of the request underway.
Planned == planCompletion # NoCompletion

\* C23: every plan planRequest returns, whatever JSON the completion service
\* gave, has language en, fr or de, intent procedural, legal or mixed, a
\* confidence between 0 and 1 (0 to 10 tenths), and agents_to_call a non-empty
\* list of the names guichet and legal.
C23_PlanWellFormed ==
  Planned =>
    /\ plan.language \in Languages
    /\ plan.intent \in {JStr(<<"procedural">>), JStr(<<"legal">>), JStr(<<"mixed">>)}
    /\ plan.confidence.t = "number"
    /\ plan.confidence.n \in 0..10
    /\ plan.agents_to_call.t = "array"
    /\ Len(plan.agents_to_call.a) > 0
    /\ \A i \in 1..Len(plan.agents_to_call.a) :
         plan.agents_to_call.a[i] \in {JStr(<<"guichet">>), JStr(<<"legal">>)}

\* C24: every Response processQuestion returns has confidence high, medium or
\* low and language en, fr or de, also when a completion output holds another
\* value in its language or confidence field.
C24_ResponseEnums ==
  returnedBy = "processQuestion" =>
    /\ response.confidence \in Levels
    /\ response.language \in Languages

\* What the plan says, read off the plan itself.
Named(name) ==
  /\ plan.agents_to_call.t = "array"
  /\ \E i \in 1..Len(plan.agents_to_call.a) : plan.agents_to_call.a[i] = JStr(<<name>>)
QueriesGiven ==
  plan.retrieval_queries.t = "array" /\ Len(plan.retrieval_queries.a) > 0
\* A retrieval function was called: it returned evidence (one item per query
\* at least) or it threw.
GuichetRetrieved == guichetEvidence # <<>> \/ thrown = "retrieveGuichetEvidence"
LegalRetrieved == legalEvidence # <<>> \/ thrown = "retrieveLegalEvidence"
\* processQuestion has got past the given step.
PastGuichetRetrieval ==
  \/ pc \in {"retrieveLegal", "callGuichet", "callLegal", "synthesize", "assemble"}
  \/ pc = "done" /\ thrown # "processQuestion: plan.agents_to_call.join"
PastLegalRetrieval ==
  \/ pc \in {"callGuichet", "callLegal", "synthesize", "assemble"}
  \/ pc = "done" /\ thrown \notin {"processQuestion: plan.agents_to_call.join",
                                   "retrieveGuichetEvidence"}
PastGuichetCall ==
  \/ pc \in {"callLegal", "synthesize", "assemble"}
  \/ pc = "done" /\ thrown \notin {"processQuestion: plan.agents_to_call.join",
                                   "retrieveGuichetEvidence", "retrieveLegalEvidence"}
PastLegalCall ==
  \/ pc \in {"synthesize", "assemble"}
  \/ pc = "done" /\ thrown \notin {"processQuestion: plan.agents_to_call.join",
                                   "retrieveGuichetEvidence", "retrieveLegalEvidence"}

\* C26: once processQuestion is past a step, the retrieval of a domain has
\* been made exactly when the plan names the domain's agent and gives a
\* non-empty list of queries, and the agent has been called exactly when the
\* plan names it and its evidence is not empty.  With agents_to_call =
\* [guichet] there is no legal retrieval and no call of the legal agent.
C26_ConditionalRouting ==
  /\ PastGuichetRetrieval => (GuichetRetrieved <=> (Named("guichet") /\ QueriesGiven))
  /\ PastLegalRetrieval => (LegalRetrieved <=> (Named("legal") /\ QueriesGiven))
  /\ PastGuichetCall =>
       /\ (calls.guichet # "none") <=> (Named("guichet") /\ guichetEvidence # <<>>)
       /\ (AnswersOf("guichet") # {}) <=> (calls.guichet # "none")
  /\ PastLegalCall =>
       /\ (calls.legal # "none") <=> (Named("legal") /\ legalEvidence # <<>>)
       /\ (AnswersOf("legal") # {}) <=> (calls.legal # "none")
  /\ (Planned /\ plan.agents_to_call = StrArr(<< <<"guichet">> >>)) =>
       /\ ~LegalRetrieved
       /\ calls.legal = "none"
       /\ AnswersOf("legal") = {}

\* The plan named the guichet agent alone, with queries: the request ended
\* with the answer of the guichet agent and without anything legal.
C26_Witness ==
  /\ pc = "done"
  /\ thrown = "none"
  /\ plan.agents_to_call = StrArr(<< <<"guichet">> >>)
  /\ QueriesGiven
  /\ calls.guichet = "json"
  /\ Len(agentResponses) = 1
  /\ legalEvidence = <<>>
  /\ \A i \in 1..Len(response.evidence) : response.evidence[i].source = "guichet"

\* C27: every Response of the success path of a request in which the legal
\* agent was called holds a limitation that contains "legal advice" in some
\* letter case, also when both agents answered and the merge call returned
\* limitations of its own.
C27_DisclaimerInResponse ==
  ( /\ pc = "done"
    /\ thrown = "none"
    /\ returnedBy = "processQuestion"
    /\ AnswersOf("legal") # {} )
    => HasLegalAdvice(response.limitations)

\* C30: on the success path the language of the Response is the language of
\* the plan, whatever language the caller gave; on the error path it is the
\* caller's language, or en when the caller gave none.
C30_ResponseLanguage ==
  (pc = "done" /\ returnedBy = "processQuestion") =>
    /\ thrown = "none" => response.language = plan.language
    /\ thrown # "none" =>
         response.language = (IF language = Undefined THEN JStr(<<"en">>) ELSE language)

\* The caller asked for de, the plan says fr, and the Response of the success
\* path says fr.
C30_Witness ==
  /\ pc = "done"
  /\ thrown = "none"
  /\ returnedBy = "processQuestion"
  /\ language = JStr(<<"de">>)
  /\ plan.language = JStr(<<"fr">>)
  /\ response.language = JStr(<<"fr">>)
  /\ response.evidence # <<>>

\* A string with every whitespace run collapsed to one space.
RECURSIVE CollapseRuns(_)
CollapseRuns(s) ==
  IF s = <<>> THEN <<>>
  ELSE IF IsWhitespace(Head(s))
       THEN IF Len(s) > 1 /\ IsWhitespace(s[2])
            THEN CollapseRuns(Tail(s))
            ELSE <<" ">> \o CollapseRuns(Tail(s))
       ELSE <<Head(s)>> \o CollapseRuns(Tail(s))
SameNormalized(q1, q2) ==
  CollapseRuns(toLowerCase(q1)) = CollapseRuns(toLowerCase(q2))

\* C29: two lookups read the same cache key only if they have the same domain
\* tag and their queries are equal after lowercasing and collapsing whitespace
\* runs; a lookup is served from the cache only if an earlier lookup of the
\* same domain and the same normalized query fetched.  A query with a space
\* and a query with an underscore in its place do not share an entry, and a
\* guichet entry is not served to a legal retrieval.
C29_KeysInjective ==
  /\ \A i, j \in 1..Len(history) :
       ReadOf(i).key = ReadOf(j).key
         => /\ history[i].source = history[j].source
            /\ SameNormalized(QueryOf(i), QueryOf(j))
  /\ \A j \in 1..Len(history) :
       ReadOf(j).hit =>
         \E i \in 1..(j - 1) :
           /\ ~ReadOf(i).hit
           /\ ReadOf(i).at = ReadOf(j).ts
           /\ history[i].source = history[j].source
           /\ SameNormalized(QueryOf(i), QueryOf(j))

\* C25: the getConversation of the router mounted as appRouter.chat returns
\* the conversation to the calling user exactly when the user owns it or a
\* row of conversationShares for the conversation and the user exists at the
\* time of the call; a user whose share the owner has removed is refused.
C25_OwnerOrShared ==
  served.router = Mounted =>
    ( served.outcome = "result"
        <=> ( \/ \E c \in conversations.rows :
                   c.id = served.conversationId /\ c.userId = served.user
              \/ \E s \in conversationShares :
                   /\ s.conversationId = served.conversationId
                   /\ s.sharedWithUserId = served.user ) )

====
